---- MODULE Spec2Model ----
(***************************************************************************)
(* A model of the blocky-editor EditorController (controller.ts) working   *)
(* on the document state through Changesets.  The controller's methods are *)
(* translated from the source; the Changeset/State/Delta layer they call   *)
(* is not part of the sources at hand and is modelled from the design      *)
(* document (sections 3, 4.1, 4.2, 4.3).                                   *)
(*                                                                         *)
(* Simplification that is kept visible: block elements are leaves (the     *)
(* children of a pasted block are carried over unchanged by the code and   *)
(* play no part in the properties below).                                  *)
(***************************************************************************)
EXTENDS Integers, Sequences, FiniteSets, TLC

\* ------------------------------------------------------------------ bounds
\* number of state-changing Controller calls in one behaviour
MaxOps == 1
\* DOM events the Editor handles in a run, the selection change apart
MaxEvents == 3

\* ------------------------------------------------------------ vocabulary
\* id of the title block of a BlockyDocument
TitleId == 0
\* id carried by the body container (a DataElement, never in the block index)
BodyId == 99
\* the id used for "no block": a null cursor, an unknown block id
NoId == 98
\* first id the id generator hands out after the initial document
FirstFreshId == 10
\* the id of a tree node that is not rendered as a block: state.domMap has
\* no entry for it
UnmappedId == 77
\* stands for a DOM element that carries the block class but no tree node
ClassOnlyId == UnmappedId - 1
\* stands for a DOM node with no block element above it or as its parent
OutsideId == UnmappedId - 2

\* span attribute keys
Keys == {"bold", "italic"}

\* block type names: TextBlock.Name, TitleBlock.Name, a non-text block and a
\* block element whose type name starts with a lower-case letter
TextName == "Text"
TitleName == "Title"
ImageName == "Image"
LowerName == "column"
BodyName == "body"

\* a character of a text model together with the attributes of its op
Ch(c, a) == [c |-> c, a |-> a]
\* a plain string of a text model
Plain(s) == [i \in 1..Len(s) |-> Ch(s[i], {})]
\* the characters of a text model, attributes dropped
Str(text) == [i \in 1..Len(text) |-> text[i].c]

\* a node of the tree
Node(id, t, text) == [id |-> id, t |-> t, text |-> text]
BodyNode == Node(BodyId, BodyName, <<>>)

\* ----------------------------------------------------------- CursorState
NoCursor == [id |-> NoId, offset |-> 0, endId |-> NoId, endOffset |-> 0]
Collapse(id, offset) == [id |-> id, offset |-> offset, endId |-> id, endOffset |-> offset]
Open(sid, so, eid, eo) == [id |-> sid, offset |-> so, endId |-> eid, endOffset |-> eo]
IsNull(c) == c.id = NoId
IsCollapsed(c) == c.id = c.endId /\ c.offset = c.endOffset
IsOpen(c) == ~IsCollapsed(c)

\* ------------------------------------------------------------------ Delta
\* A text model is an insert-only, normalised Delta: it is kept as its
\* sequence of characters, each with the attribute set of the op it lies in;
\* the ops are the maximal runs of equal attributes.
Retain(n) == [k |-> "retain", n |-> n, on |-> {}, off |-> {}, s |-> <<>>]
RetainAttr(n, attribs) == [k |-> "retain", n |-> n, on |-> attribs.on, off |-> attribs.off, s |-> <<>>]
Delete(n) == [k |-> "delete", n |-> n, on |-> {}, off |-> {}, s |-> <<>>]
Insert(s) == [k |-> "insert", n |-> Len(s), on |-> {}, off |-> {}, s |-> s]

\* Delta.slice(start, end) of a text model: the characters with
\* start <= index < end (a start below 0 takes from the beginning)
Slice(text, start, end) ==
  LET from == IF start < 0 THEN 0 ELSE start
      to == IF end > Len(text) THEN Len(text) ELSE end
  IN IF from >= to THEN <<>> ELSE SubSeq(text, from + 1, to)
\* Delta.slice(start) of a text model
SliceFrom(text, start) == Slice(text, start, Len(text))

\* number of ops of a normalised insert-only delta
NumOps(text) ==
  IF Len(text) = 0 THEN 0
  ELSE 1 + Cardinality({i \in 1..(Len(text) - 1) : text[i].a # text[i + 1].a})

RECURSIVE ChangeLength(_)
\* Delta.changeLength(): inserted minus deleted length
ChangeLength(d) ==
  IF d = <<>> THEN 0
  ELSE (CASE Head(d).k = "insert" -> Head(d).n
          [] Head(d).k = "delete" -> 0 - Head(d).n
          [] OTHER -> 0) + ChangeLength(Tail(d))

\* the attributes of a character after a retain carrying attributes
\* (a null value clears the key)
ApplyAttrs(ch, op) == Ch(ch.c, (ch.a \cup op.on) \ op.off)

RECURSIVE Compose(_, _)
\* textModel.delta.compose(d) for an insert-only text model
Compose(text, d) ==
  IF d = <<>> THEN text
  ELSE LET op == Head(d)
           n == IF op.n < Len(text) THEN op.n ELSE Len(text)
       IN CASE op.k = "insert" -> op.s \o Compose(text, Tail(d))
            [] op.k = "delete" -> Compose(SubSeq(text, n + 1, Len(text)), Tail(d))
            [] OTHER ->
                 [i \in 1..n |-> ApplyAttrs(text[i], op)]
                   \o Compose(SubSeq(text, n + 1, Len(text)), Tail(d))

\* new Delta().retain(n).concat(textDelta): retain(0) adds no op
RetainThen(n, rest) == (IF n > 0 THEN <<Retain(n)>> ELSE <<>>) \o rest
\* the ops of a text model, as a delta of one insert of all its characters
AsInsert(text) == IF Len(text) = 0 THEN <<>> ELSE <<Insert(text)>>

\* ------------------------------------------------------------------ State
\* The model's state record: root = the document's children, body = the
\* children of the body container, blocks = the ids of the block index.
RootParent == "root"
BodyParent == "body"

IsBlock(n) == n.t # BodyName
\* EditorState.isTextLike: the block carries a text model under textContent
IsTextLike(n) == n.t \in {TextName, TitleName}

RECURSIVE Flatten(_, _)
\* the block elements of the tree in document order
Flatten(root, body) ==
  IF root = <<>> THEN <<>>
  ELSE (IF Head(root).t = BodyName THEN body ELSE <<Head(root)>>)
         \o Flatten(Tail(root), body)
LiveBlocks(S) == Flatten(S.root, S.body)
LiveIds(S) == {LiveBlocks(S)[i].id : i \in 1..Len(LiveBlocks(S))}

\* position of the first node of a list carrying the id, 0 when there is none
IndexOfId(list, id) ==
  IF \E i \in 1..Len(list) : list[i].id = id
  THEN CHOOSE i \in 1..Len(list) :
         list[i].id = id /\ \A j \in 1..(i - 1) : list[j].id # id
  ELSE 0

\* EditorState.getBlockElementById: the node the block index holds for the id
HasBlock(S, id) == id \in S.blocks
GetBlock(S, id) == LiveBlocks(S)[IndexOfId(LiveBlocks(S), id)]
\* node.parent of a live block element
ParentOf(S, id) == IF IndexOfId(S.root, id) > 0 THEN RootParent ELSE BodyParent
\* node.nextSibling of a live block element (NoId when it is the last child)
NextSiblingId(S, id) ==
  LET list == IF ParentOf(S, id) = RootParent THEN S.root ELSE S.body
      i == IndexOfId(list, id)
  IN IF i < Len(list) THEN list[i + 1].id ELSE NoId
TextLen(S, id) == Len(GetBlock(S, id).text)

\* -------------------------------------------------------------- Changeset
OpInsertAfter(parent, nodes, prev) ==
  [op |-> "insertAfter", parent |-> parent, nodes |-> nodes, prev |-> prev,
   index |-> 0, id |-> NoId, delta |-> <<>>]
OpInsertAt(parent, index, nodes) ==
  [op |-> "insertAt", parent |-> parent, nodes |-> nodes, prev |-> NoId,
   index |-> index, id |-> NoId, delta |-> <<>>]
OpRemove(id) ==
  [op |-> "remove", parent |-> "", nodes |-> <<>>, prev |-> NoId,
   index |-> 0, id |-> id, delta |-> <<>>]
OpTextEdit(id, delta) ==
  [op |-> "textEdit", parent |-> "", nodes |-> <<>>, prev |-> NoId,
   index |-> 0, id |-> id, delta |-> delta]

\* a Changeset under construction: recorded operations and requested cursor
NewChangeset == [ops |-> <<>>, cursorSet |-> FALSE, cursor |-> NoCursor]
Push(cs, op) == [cs EXCEPT !.ops = Append(cs.ops, op)]
SetCursor(cs, c) == [cs EXCEPT !.cursorSet = TRUE, !.cursor = c]

InsertInto(list, at, nodes) == SubSeq(list, 1, at) \o nodes \o SubSeq(list, at + 1, Len(list))
RemoveAt(list, i) == SubSeq(list, 1, i - 1) \o SubSeq(list, i + 1, Len(list))
IdsOf(nodes) == {nodes[i].id : i \in 1..Len(nodes)}
EditList(list, id, delta) ==
  [i \in 1..Len(list) |->
     IF list[i].id = id /\ IsTextLike(list[i])
     THEN [list[i] EXCEPT !.text = Compose(list[i].text, delta)]
     ELSE list[i]]

\* one recorded operation executed against the tree and the block index
ApplyOp(S, o) ==
  CASE o.op \in {"insertAfter", "insertAt"} ->
         LET list == IF o.parent = RootParent THEN S.root ELSE S.body
             at == IF o.op = "insertAt" THEN o.index ELSE IndexOfId(list, o.prev)
             new == InsertInto(list, at, o.nodes)
         IN [S EXCEPT !.root = IF o.parent = RootParent THEN new ELSE @,
                      !.body = IF o.parent = RootParent THEN @ ELSE new,
                      !.blocks = @ \cup IdsOf(o.nodes)]
    [] o.op = "remove" ->
         LET ri == IndexOfId(S.root, o.id)
             bi == IndexOfId(S.body, o.id)
         IN [S EXCEPT !.root = IF ri > 0 THEN RemoveAt(@, ri) ELSE @,
                      !.body = IF ri = 0 /\ bi > 0 THEN RemoveAt(@, bi) ELSE @,
                      !.blocks = @ \ {o.id}]
    [] OTHER ->
         [S EXCEPT !.root = EditList(@, o.id, o.delta),
                   !.body = EditList(@, o.id, o.delta)]

RECURSIVE ApplyOps(_, _)
ApplyOps(S, ops) ==
  IF ops = <<>> THEN S ELSE ApplyOps(ApplyOp(S, Head(ops)), Tail(ops))

\* OutOfRangeCursor: an offset past the text length is clamped to the length
ClampOffset(S, id, offset) ==
  IF id \in LiveIds(S) /\ IsTextLike(GetBlock(S, id)) /\ offset > TextLen(S, id)
  THEN TextLen(S, id) ELSE offset
ClampCursor(S, c) ==
  IF IsNull(c) THEN c
  ELSE [c EXCEPT !.offset = ClampOffset(S, c.id, c.offset),
                 !.endOffset = ClampOffset(S, c.endId, c.endOffset)]

\* Changeset.apply(options): the operations in recorded order, then the
\* cursor (the requested one, or the current one re-normalised under
\* refreshCursor), then the version; applyLog keeps the Changesets a call
\* has applied, in the order in which their apply() returned
Apply(S, cs, refreshCursor) ==
  LET T == ApplyOps(S, cs.ops)
  IN [T EXCEPT !.cursor = IF cs.cursorSet THEN ClampCursor(T, cs.cursor)
                          ELSE IF refreshCursor THEN ClampCursor(T, @)
                          ELSE @,
               !.version = @ + 1,
               !.applyLog = Append(@, cs)]

\* EditorState.createTextElement(delta): a Text block with a fresh block id
CreateTextElement(S, text) == Node(S.nextId, TextName, text)

\* ------------------------------------------------------- EditorController
\* What a Controller call leaves behind: the state, the value it returns
\* (a cursor, where the method returns one), the number of Changesets it
\* applied and how it ended: "ok", "guard" (an early return) or "throw".
Result(S, ret, applies, outcome) ==
  [S |-> S, ret |-> ret, applies |-> applies, outcome |-> outcome]

\* EditorController.getBlockElementAtCursor
HasBlockAtCursor(S) == ~IsNull(S.cursor) /\ HasBlock(S, S.cursor.id)

\* applyDeltaAtCursor that leaves the cursor at the offset it had
ApplyDeltaAtCursor_CursorStays(S, deltaGen) ==
  IF ~HasBlockAtCursor(S) THEN Result(S, NoCursor, 0, "guard")
  ELSE IF GetBlock(S, S.cursor.id).t # TextName THEN Result(S, NoCursor, 0, "guard")
  ELSE LET element == GetBlock(S, S.cursor.id)
           offset == S.cursor.offset
           delta == deltaGen[offset]
           cs == SetCursor(Push(NewChangeset, OpTextEdit(element.id, delta)),
                           Collapse(element.id, offset))
       IN Result(Apply(S, cs, FALSE), NoCursor, 1, "ok")

\* EditorController.applyDeltaAtCursor(deltaGen)
ApplyDeltaAtCursor(S, deltaGen) ==
  IF ~HasBlockAtCursor(S) THEN Result(S, NoCursor, 0, "guard")
  ELSE IF GetBlock(S, S.cursor.id).t # TextName THEN Result(S, NoCursor, 0, "guard")
  ELSE LET element == GetBlock(S, S.cursor.id)
           offset == S.cursor.offset
           delta == deltaGen[offset]
           appliedLen == ChangeLength(delta) + offset
           cs == SetCursor(Push(NewChangeset, OpTextEdit(element.id, delta)),
                           Collapse(element.id, appliedLen))
       IN Result(Apply(S, cs, FALSE), NoCursor, 1, "ok")

\* insertBlockAfterId gone wrong: the focus is set by a Changeset of its own,
\* applied after the one that inserts
InsertBlockAfterId_FocusApart(S, editor, element, afterId, autoFocus, noRender) ==
  IF ~HasBlock(S, afterId) \/ ~editor
  THEN Result(S, NoCursor, 0, "throw")
  ELSE LET parentNode == ParentOf(S, afterId)
           updateState == Push(NewChangeset, OpInsertAfter(parentNode, <<element>>, afterId))
           T == Apply(S, updateState, FALSE)
       IN IF ~noRender /\ autoFocus
          THEN Result(Apply(T, SetCursor(NewChangeset, Collapse(element.id, 0)), FALSE),
                      NoCursor, 2, "ok")
          ELSE Result(T, NoCursor, 1, "ok")

\* EditorController.insertBlockAfterId(element, afterId, options)
InsertBlockAfterId(S, editor, element, afterId, autoFocus, noRender) ==
  IF ~HasBlock(S, afterId) \/ ~editor
  THEN \* prevNode.parent of undefined, or editor.state of undefined
       Result(S, NoCursor, 0, "throw")
  ELSE LET parentNode == ParentOf(S, afterId)
           updateState == Push(NewChangeset, OpInsertAfter(parentNode, <<element>>, afterId))
           changeset == IF ~noRender /\ autoFocus
                        THEN SetCursor(updateState, Collapse(element.id, 0))
                        ELSE updateState
       IN Result(Apply(S, changeset, FALSE), NoCursor, 1, "ok")

\* isUpperCase(blockNode.t): the type name starts with an upper-case letter
IsUpperCase(t) == t \in {TextName, TitleName, ImageName}

\* EditorController.deleteBlock(id)
DeleteBlock(S, editor, id) ==
  IF ~editor THEN Result(S, NoCursor, 0, "guard")
  ELSE IF ~HasBlock(S, id) THEN Result(S, NoCursor, 0, "guard")
  ELSE IF ~IsUpperCase(GetBlock(S, id).t) THEN Result(S, NoCursor, 0, "guard")
  ELSE Result(Apply(S, Push(NewChangeset, OpRemove(id)), TRUE), NoCursor, 1, "ok")

\* EditorState.splitCursorStateByBlocks: one span per crossed text-like
\* block, in document order, clipped to the selection
SplitCursorStateByBlocks(S, c) ==
  LET all == LiveBlocks(S)
      first == IndexOfId(all, c.id)
      last == IndexOfId(all, c.endId)
      span(i) == [id |-> all[i].id,
                  startOffset |-> IF i = first THEN c.offset ELSE 0,
                  endOffset |-> IF i = last THEN c.endOffset ELSE Len(all[i].text)]
      picked == {i \in first..last : IsTextLike(all[i])}
      nth(k) == CHOOSE i \in picked : Cardinality({j \in picked : j < i}) = k - 1
  IN [k \in 1..Cardinality(picked) |-> span(nth(k))]

\* the toggle test gone wrong: the keys the first op of the run carries are
\* flipped however many ops the run has
FlipKeys_AnyOps(attribs, run) ==
  IF run # <<>>
  THEN [on |-> attribs.on \ run[1].a,
        off |-> attribs.off \cup ((attribs.on \cup attribs.off) \cap run[1].a)]
  ELSE attribs

\* the requested attributes after the toggle test on one block's selected
\* run: attribs[key] = null for every requested key the single op carries
FlipKeys(attribs, run) ==
  IF NumOps(run) = 1
  THEN [on |-> attribs.on \ run[1].a,
        off |-> attribs.off \cup ((attribs.on \cup attribs.off) \cap run[1].a)]
  ELSE attribs

RECURSIVE FormatAttribs(_, _, _)
\* the attribs object after the loop over the spans (it is mutated in place)
FormatAttribs(S, states, attribs) ==
  IF states = <<>> THEN attribs
  ELSE LET st == Head(states)
           blockElement == GetBlock(S, st.id)
       IN IF blockElement.t # TextName
          THEN FormatAttribs(S, Tail(states), attribs)
          ELSE FormatAttribs(S, Tail(states),
                 FlipKeys(attribs, Slice(blockElement.text, st.startOffset, st.endOffset)))

RECURSIVE FormatEdits(_, _, _, _)
\* the text edits recorded by the loop; every recorded retain refers to the
\* one attribs object, so it carries the object's final content
FormatEdits(S, states, attribs, cs) ==
  IF states = <<>> THEN cs
  ELSE LET st == Head(states)
       IN IF GetBlock(S, st.id).t # TextName
          THEN FormatEdits(S, Tail(states), attribs, cs)
          ELSE FormatEdits(S, Tail(states), attribs,
                 Push(cs, OpTextEdit(st.id,
                   RetainThen(st.startOffset,
                     <<RetainAttr(st.endOffset - st.startOffset, attribs)>>))))

\* EditorController.formatTextOnCursor(cursorState, attribs)
FormatTextOnCursor(S, editor, c, attribs) ==
  IF ~editor THEN Result(S, NoCursor, 0, "guard")
  ELSE IF IsCollapsed(c) THEN Result(S, NoCursor, 0, "guard")
  ELSE IF ~HasBlock(S, c.id) \/ ~HasBlock(S, c.endId)
  THEN \* blockElement.t of undefined
       Result(S, NoCursor, 0, "throw")
  ELSE LET states == SplitCursorStateByBlocks(S, c)
           final == FormatAttribs(S, states, attribs)
           changeset == FormatEdits(S, states, final, NewChangeset)
       IN Result(Apply(S, changeset, TRUE), NoCursor, 1, "ok")

\* EditorController.formatTextOnSelectedText(attribs)
FormatTextOnSelectedText(S, editor, attribs) ==
  IF ~editor THEN Result(S, NoCursor, 0, "guard")
  ELSE IF IsNull(S.cursor) THEN Result(S, NoCursor, 0, "guard")
  ELSE FormatTextOnCursor(S, editor, S.cursor, attribs)

\* a traversal that starts at the top of the document
TraverseFrom_Top(S, startId) ==
  SubSeq(LiveBlocks(S), 1, Len(LiveBlocks(S)))
\* NodeTraverser(state, startNode): the block elements from the start node
\* on, in document order
TraverseFrom(S, startId) ==
  SubSeq(LiveBlocks(S), IndexOfId(LiveBlocks(S), startId), Len(LiveBlocks(S)))

RECURSIVE DeleteLoop(_, _, _, _)
\* the while loop of deleteContentInsideInSelection over the traversal
DeleteLoop(S, c, items, cs) ==
  IF items = <<>> THEN cs
  ELSE LET item == Head(items)
           startNode == GetBlock(S, c.id)
           endNode == GetBlock(S, c.endId)
           next ==
             IF item.id = c.id /\ IsTextLike(startNode)
             THEN SetCursor(
                    Push(cs, OpTextEdit(item.id,
                      RetainThen(c.offset, <<Delete(Len(item.text) - c.offset)>>))),
                    Collapse(item.id, c.offset))
             ELSE IF item.id = c.endId /\ IsTextLike(endNode)
             THEN Push(
                    Push(cs, OpTextEdit(c.id,
                      RetainThen(c.offset, AsInsert(SliceFrom(item.text, c.endOffset))))),
                    OpRemove(item.id))
             ELSE Push(cs, OpRemove(item.id))
       IN IF item.id = c.endId THEN next ELSE DeleteLoop(S, c, Tail(items), next)

\* deleteContentInsideInSelection gone wrong: across blocks the end block's
\* whole text is appended to the start block, its end offset ignored
DeleteContentInsideInSelection_WholeEnd(S, c) ==
  IF ~HasBlock(S, c.id) \/ ~HasBlock(S, c.endId)
  THEN Result(S, NoCursor, 0, "throw")
  ELSE IF c.id = c.endId
  THEN LET currentBlockElement == GetBlock(S, c.id)
       IN IF IsTextLike(currentBlockElement)
          THEN LET newState == Collapse(c.id, c.offset)
                   cs == SetCursor(
                           Push(NewChangeset, OpTextEdit(c.id,
                             RetainThen(c.offset, <<Delete(c.endOffset - c.offset)>>))),
                           newState)
               IN Result(Apply(S, cs, FALSE), newState, 1, "ok")
          ELSE LET next == NextSiblingId(S, c.id)
                   changeset == Push(NewChangeset, OpRemove(c.id))
               IN IF next # NoId
                  THEN Result(Apply(S, SetCursor(changeset, Collapse(next, 0)), FALSE),
                              Collapse(next, 0), 1, "ok")
                  ELSE Result(Apply(S, changeset, FALSE), NoCursor, 1, "ok")
  ELSE LET changeset == DeleteLoop(S, [c EXCEPT !.endOffset = 0],
                                   TraverseFrom(S, c.id), NewChangeset)
           T == Apply(S, changeset, FALSE)
       IN Result(T, IF changeset.cursorSet THEN T.cursor ELSE NoCursor, 1, "ok")

\* EditorController.deleteContentInsideInSelection(cursorState)
DeleteContentInsideInSelection(S, c) ==
  IF ~HasBlock(S, c.id) \/ ~HasBlock(S, c.endId)
  THEN \* a property of undefined is read
       Result(S, NoCursor, 0, "throw")
  ELSE IF c.id = c.endId
  THEN LET currentBlockElement == GetBlock(S, c.id)
       IN IF IsTextLike(currentBlockElement)
          THEN LET newState == Collapse(c.id, c.offset)
                   cs == SetCursor(
                           Push(NewChangeset, OpTextEdit(c.id,
                             RetainThen(c.offset, <<Delete(c.endOffset - c.offset)>>))),
                           newState)
               IN Result(Apply(S, cs, FALSE), newState, 1, "ok")
          ELSE LET next == NextSiblingId(S, c.id)
                   changeset == Push(NewChangeset, OpRemove(c.id))
               IN IF next # NoId
                  THEN Result(Apply(S, SetCursor(changeset, Collapse(next, 0)), FALSE),
                              Collapse(next, 0), 1, "ok")
                  ELSE Result(Apply(S, changeset, FALSE), NoCursor, 1, "ok")
  ELSE LET changeset == DeleteLoop(S, c, TraverseFrom(S, c.id), NewChangeset)
           T == Apply(S, changeset, FALSE)
       IN Result(T, IF changeset.cursorSet THEN T.cursor ELSE NoCursor, 1, "ok")

\* the for loop gone wrong: the first element is merged whenever it is
\* text-like, whatever the current block is
PasteLoop_MergeAnywhere(S, currentBlockElement, elements) ==
  LET first == elements[1]
      prevText == currentBlockElement.text
      offset == S.cursor.offset
  IN IF ~IsTextLike(first)
     THEN [cs |-> NewChangeset, insertChildren |-> elements,
           hasAppend |-> FALSE, appendDelta |-> <<>>]
     ELSE IF Len(elements) = 1
     THEN [cs |-> SetCursor(
                    Push(NewChangeset, OpTextEdit(currentBlockElement.id,
                      RetainThen(offset, AsInsert(first.text)))),
                    Collapse(currentBlockElement.id, offset + Len(first.text))),
           insertChildren |-> <<>>, hasAppend |-> FALSE, appendDelta |-> <<>>]
     ELSE [cs |-> Push(NewChangeset, OpTextEdit(currentBlockElement.id,
                    RetainThen(offset,
                      <<Delete(Len(prevText) - offset)>> \o AsInsert(first.text)))),
           insertChildren |-> Tail(elements),
           hasAppend |-> TRUE, appendDelta |-> SliceFrom(prevText, offset)]

\* the for loop of pasteElementsAtCursor: the text edit and cursor recorded
\* for the first element, the elements left to insert and the tail cut off
\* the current block (appendDelta; hasAppend tells whether it is defined)
PasteLoop(S, currentBlockElement, elements) ==
  LET first == elements[1]
      merge == IsTextLike(currentBlockElement) /\ IsTextLike(first)
      prevText == currentBlockElement.text
      offset == S.cursor.offset
  IN IF ~merge
     THEN [cs |-> NewChangeset, insertChildren |-> elements,
           hasAppend |-> FALSE, appendDelta |-> <<>>]
     ELSE IF Len(elements) = 1
     THEN [cs |-> SetCursor(
                    Push(NewChangeset, OpTextEdit(currentBlockElement.id,
                      RetainThen(offset, AsInsert(first.text)))),
                    Collapse(currentBlockElement.id, offset + Len(first.text))),
           insertChildren |-> <<>>, hasAppend |-> FALSE, appendDelta |-> <<>>]
     ELSE [cs |-> Push(NewChangeset, OpTextEdit(currentBlockElement.id,
                    RetainThen(offset,
                      <<Delete(Len(prevText) - offset)>> \o AsInsert(first.text)))),
           insertChildren |-> Tail(elements),
           hasAppend |-> TRUE, appendDelta |-> SliceFrom(prevText, offset)]

\* the handling of appendDelta gone wrong: the element that reuses the last
\* child's id is pushed next to the last child instead of replacing it
PasteTail_KeepLastChild(S, loop) ==
  LET ic == loop.insertChildren
      n == Len(ic)
  IN IF ~loop.hasAppend THEN loop
     ELSE IF n > 0 /\ IsTextLike(ic[n])
     THEN LET lastChild == ic[n]
              prevOffset == Len(lastChild.text)
              newChild == Node(lastChild.id, TextName, lastChild.text \o loop.appendDelta)
          IN [loop EXCEPT !.cs = SetCursor(@, Collapse(lastChild.id, prevOffset)),
                          !.insertChildren = Append(ic, newChild)]
     ELSE LET appendElement == CreateTextElement(S, loop.appendDelta)
          IN [loop EXCEPT !.cs = SetCursor(@, Collapse(appendElement.id,
                                                         Len(appendElement.text))),
                          !.insertChildren = Append(ic, appendElement)]

\* the handling of appendDelta after the loop: appended to the last element
\* when it is text-like, otherwise a new trailing text block
PasteTail(S, loop) ==
  LET ic == loop.insertChildren
      n == Len(ic)
  IN IF ~loop.hasAppend THEN loop
     ELSE IF n > 0 /\ IsTextLike(ic[n])
     THEN LET lastChild == ic[n]
              prevOffset == Len(lastChild.text)
              newChild == Node(lastChild.id, TextName, lastChild.text \o loop.appendDelta)
          IN [loop EXCEPT !.cs = SetCursor(@, Collapse(lastChild.id, prevOffset)),
                          !.insertChildren = [ic EXCEPT ![n] = newChild]]
     ELSE LET appendElement == CreateTextElement(S, loop.appendDelta)
          IN [loop EXCEPT !.cs = SetCursor(@, Collapse(appendElement.id,
                                                         Len(appendElement.text))),
                          !.insertChildren = Append(ic, appendElement)]

\* pasteElementsAtCursor from line 540 on: the cursor is collapsed
PasteAtCollapsed(S, elements, applied) ==
  IF ~HasBlock(S, S.cursor.id)
  THEN \* currentBlockElement.parent of undefined
       Result(S, NoCursor, applied, "throw")
  ELSE
  LET currentBlockElement == GetBlock(S, S.cursor.id)
      parent == ParentOf(S, currentBlockElement.id)
      prev == currentBlockElement.id
      done == PasteTail(S, PasteLoop(S, currentBlockElement, elements))
      changeset == Push(done.cs, OpInsertAfter(parent, done.insertChildren, prev))
      T == Apply(S, changeset, FALSE)
  IN Result([T EXCEPT !.nextId = @ + 1], NoCursor, applied + 1, "ok")

\* EditorController.pasteElementsAtCursor(elements)
PasteElementsAtCursor(S, elements) ==
  IF Len(elements) = 0 THEN Result(S, NoCursor, 0, "guard")
  ELSE IF IsNull(S.cursor)
  THEN IF S.body = <<>>
       THEN Result(Apply(S, Push(NewChangeset, OpInsertAt(BodyParent, 0, elements)), FALSE),
                   NoCursor, 1, "ok")
       ELSE Result(S, NoCursor, 0, "guard")
  ELSE IF IsOpen(S.cursor)
  THEN LET del == DeleteContentInsideInSelection(S, S.cursor)
       IN IF IsNull(del.ret)
          THEN Result(del.S, NoCursor, del.applies, "guard")
          ELSE PasteAtCollapsed(del.S, elements, del.applies)
  ELSE PasteAtCollapsed(S, elements, 0)

\* ------------------------------------------------------------ HTML paste
\* the names the block registry holds, and a name it does not hold
Registered == {TextName, TitleName, ImageName, LowerName}
GhostName == "Ghost"

\* no block element
NoNode == Node(NoId, "", <<>>)
\* a pasted <div>: its data-type ("" when absent) and its data-content:
\* "none" (absent), "block" (the JSON of the block element in node) or
\* "malformed" (not JSON)
Div(dataType, content, node) == [dataType |-> dataType, content |-> content, node |-> node]

\* what a paste handler gives back: a block element, nothing, or an exception
Handled(S, el) == [S |-> S, has |-> TRUE, el |-> el, throws |-> FALSE]
Dropped(S) == [S |-> S, has |-> FALSE, el |-> NoNode, throws |-> FALSE]
Thrown(S) == [S |-> S, has |-> FALSE, el |-> NoNode, throws |-> TRUE]

\* IdGenerator.mkBlockId: the id handed out in state S
MkBlockId(S) == S.nextId

\* IBlockDefinition.OnPaste: the Text block builds a text block of the
\* element's content under a new id, the other blocks define no handler
OnPaste(S, element) ==
  IF element.dataType = TextName
  THEN Handled([S EXCEPT !.nextId = @ + 1], Node(MkBlockId(S), TextName, Plain(<<"d">>)))
  ELSE Dropped(S)

\* the div handler gone wrong: the deserialized block keeps the id of its
\* data-content
DivHandler_KeepsId(S, element) ==
  IF element.dataType = "" THEN Dropped(S)
  ELSE IF element.dataType \notin Registered THEN Dropped(S)
  ELSE IF element.content = "malformed" THEN Thrown(S)
  ELSE IF element.content = "block" THEN Handled(S, element.node)
  ELSE OnPaste(S, element)

\* EditorController.#divHandler(node)
DivHandler(S, element) ==
  IF element.dataType = "" THEN Dropped(S)
  ELSE IF element.dataType \notin Registered THEN Dropped(S)
  ELSE IF element.content = "malformed"
  THEN \* JSON.parse throws
       Thrown(S)
  ELSE IF element.content = "block"
  THEN \* node.cloneWithId(this.idGenerator.mkBlockId())
       Handled([S EXCEPT !.nextId = @ + 1], [element.node EXCEPT !.id = MkBlockId(S)])
  ELSE OnPaste(S, element)

RECURSIVE ParseFromString(_, _, _)
\* HTMLConverter.parseFromString: the block elements the div handler gives
\* for the elements of the body, in order; an exception of a handler ends it
ParseFromString(S, html, blocks) ==
  IF html = <<>> THEN [S |-> S, blocks |-> blocks, throws |-> FALSE]
  ELSE LET h == DivHandler(S, Head(html))
       IN IF h.throws THEN [S |-> h.S, blocks |-> blocks, throws |-> TRUE]
          ELSE ParseFromString(h.S, Tail(html),
                               IF h.has THEN Append(blocks, h.el) ELSE blocks)

\* EditorController.pasteHTMLAtCursor(html): an exception of the parse or of
\* the paste is caught and logged
PasteHTMLAtCursor(S, html) ==
  LET parsed == ParseFromString(S, html, <<>>)
  IN IF parsed.throws THEN Result(parsed.S, NoCursor, 0, "caught")
     ELSE LET r == PasteElementsAtCursor(parsed.S, parsed.blocks)
          IN IF r.outcome = "throw" THEN [r EXCEPT !.outcome = "caught"] ELSE r

\* ------------------------------------------------------------ the Editor
\* The view layer of view/editor.ts. It works on a DocumentState: a list of
\* blocks under the root, each with a block name and a data that is a
\* TextModel (hasText) or not, and a cursor.

\* TextBlockName, and the name of a block whose definition is not editable
TextBlockName == "text"
ImageBlockName == "image"
\* the names the Editor's block registry holds
EditorRegistered == {TextBlockName, ImageBlockName}
\* blockDef.editable !== false
Editable(name) == name # ImageBlockName

\* TextType of a TextModel, and Editor.preservedTextType
NormalType == "normal"
BulletedType == "bulleted"
HeadingType == "heading"
preservedTextType == {BulletedType}

\* a block of the DocumentState
Block(id, name, hasText, textType, text) ==
  [id |-> id, name |-> name, hasText |-> hasText, textType |-> textType, text |-> text]
TextBlockOf(id, textType, text) == Block(id, TextBlockName, TRUE, textType, text)
PlainBlockOf(id, name) == Block(id, name, FALSE, NormalType, <<>>)

\* state.idMap: the ids of the blocks, the block of an id, its position
IdMap(E) == {E.doc[i].id : i \in 1..Len(E.doc)}
IdMapGet(E, id) == E.doc[IndexOfId(E.doc, id)]
\* node.prev and node.next: the id of the sibling, NoId when there is none
PrevOf(E, id) ==
  IF IndexOfId(E.doc, id) > 1 THEN E.doc[IndexOfId(E.doc, id) - 1].id ELSE NoId
NextOf(E, id) ==
  IF IndexOfId(E.doc, id) < Len(E.doc) THEN E.doc[IndexOfId(E.doc, id) + 1].id ELSE NoId

\* Editor.handleCursorStateChanged after an assignment to state.cursorState:
\* a changed collapsed cursor is put into the window's selection, a cleared
\* cursor removes the ranges, an open one leaves the selection alone; a
\* collapsed cursor on an id without entry in state.domMap throws
AssignCursor(E, c) ==
  IF c = E.cursorState THEN E
  ELSE IF IsNull(c) THEN [E EXCEPT !.cursorState = c, !.selection = NoCursor]
  ELSE IF IsOpen(c) THEN [E EXCEPT !.cursorState = c]
  ELSE IF c.id \notin DOMAIN E.dom
  THEN \* throw new Error(`dom not found: ${targetId}`)
       [E EXCEPT !.cursorState = c, !.thrown = TRUE]
  ELSE [E EXCEPT !.cursorState = c, !.selection = c]

\* Where an endpoint of the window's range lies, the selection being kept
\* as a cursor: "block" when findBlockNodeContainer finds a block above the
\* container, else "parent" when the container's parent carries the block
\* class and a tree node, "class" when it carries the class only, and
\* "outside" for anything else
FindBlockNodeContainer(E, id) ==
  IF id \in {E.doc[i].id : i \in 1..Len(E.doc)} THEN "block"
  ELSE IF id = UnmappedId THEN "parent"
  ELSE IF id = ClassOnlyId THEN "class"
  ELSE "outside"

\* Editor.trySelectOnParent(startContainer)
TrySelectOnParent(E, id) ==
  IF FindBlockNodeContainer(E, id) = "parent"
  THEN [ok |-> TRUE, E |-> AssignCursor(E, Collapse(id, 0))]
  ELSE [ok |-> FALSE, E |-> E]

\* Editor.handleTreeNodeNotFound(startContainer)
HandleTreeNodeNotFound(E, id) ==
  IF TrySelectOnParent(E, id).ok THEN TrySelectOnParent(E, id).E
  ELSE AssignCursor(E, NoCursor)

\* selectionChanged putting the end of the range where its start is
SelectionChanged_CollapsesRange(E) ==
  LET sel == E.selection
  IN IF IsNull(sel) THEN E
     ELSE IF FindBlockNodeContainer(E, sel.id) # "block"
     THEN HandleTreeNodeNotFound(E, sel.id)
     ELSE IF IsCollapsed(sel)
     THEN AssignCursor(E, Collapse(sel.id, sel.offset))
     ELSE IF FindBlockNodeContainer(E, sel.endId) # "block"
     THEN AssignCursor(E, NoCursor)
     ELSE AssignCursor(E, Open(sel.id, sel.offset, sel.id, sel.offset))
\* Editor.selectionChanged: the cursor becomes the window's selection; no
\* range leaves the cursor alone
SelectionChanged(E) ==
  LET sel == E.selection
  IN IF IsNull(sel) THEN E
     ELSE IF FindBlockNodeContainer(E, sel.id) # "block"
     THEN HandleTreeNodeNotFound(E, sel.id)
     ELSE IF IsCollapsed(sel)
     THEN AssignCursor(E, Collapse(sel.id, sel.offset))
     ELSE IF FindBlockNodeContainer(E, sel.endId) # "block"
     THEN AssignCursor(E, NoCursor)
     ELSE AssignCursor(E, Open(sel.id, sel.offset, sel.endId, sel.endOffset))

\* Editor.render: the DOM of every block shows its model
Render(E) ==
  [E EXCEPT !.dom = [id \in IdMap(E) |-> Str(IdMapGet(E, id).text)],
            !.detached = {},
            !.rendered = @ + 1]

\* Action "new-block" and Action "delete"
NewBlockAction(afterId, block) == [type |-> "new-block", afterId |-> afterId, block |-> block]
DeleteAction(targetId) == [type |-> "delete", targetId |-> targetId, block |-> PlainBlockOf(NoId, "")]

\* State.applyActions of one action
ApplyAction(doc, action) ==
  IF action.type = "new-block"
  THEN InsertInto(doc, IndexOfId(doc, action.afterId), <<action.block>>)
  ELSE IF IndexOfId(doc, action.targetId) > 0
       THEN RemoveAt(doc, IndexOfId(doc, action.targetId))
       ELSE doc

RECURSIVE ApplyActionList(_, _)
ApplyActionList(doc, actions) ==
  IF actions = <<>> THEN doc
  ELSE ApplyActionList(ApplyAction(doc, Head(actions)), Tail(actions))

\* Editor.applyActions(actions, noUpdate): the state applies the actions,
\* the view is rendered unless noUpdate, then selectionChanged runs
ApplyActions(E, actions, noUpdate) ==
  IF actions = <<>> THEN E
  ELSE LET A == [E EXCEPT !.doc = ApplyActionList(E.doc, actions),
                          !.applied = @ + 1]
       IN SelectionChanged(IF noUpdate THEN A ELSE Render(A))

\* the text of block id replaced
WithText(doc, id, text) ==
  [i \in 1..Len(doc) |-> IF doc[i].id = id THEN [doc[i] EXCEPT !.text = text] ELSE doc[i]]

\* commitNewLine with the new block always taking over the text type
CommitNewLine_InheritsAnyTextType(E) ==
  LET cursorState == E.cursorState
  IN IF IsNull(cursorState) THEN E
     ELSE IF ~IsCollapsed(cursorState) THEN E
     ELSE IF cursorState.id \notin IdMap(E) THEN E
     ELSE IF ~IdMapGet(E, cursorState.id).hasText THEN E
     ELSE LET node == IdMapGet(E, cursorState.id)
              cursorOffset == cursorState.offset
              slices == SliceFrom(node.text, cursorOffset)
              newTextModel == TextBlockOf(E.mkId, node.textType, slices)
              deleted == [E EXCEPT !.doc = WithText(@, node.id, Slice(node.text, 0, cursorOffset)),
                                   !.mutated = @ + 1,
                                   !.mkId = @ + 1]
              done == ApplyActions(deleted, <<NewBlockAction(node.id, newTextModel)>>, FALSE)
          IN AssignCursor(Render(done), Collapse(newTextModel.id, 0))

\* Editor.commitNewLine
CommitNewLine(E) ==
  LET cursorState == E.cursorState
  IN IF IsNull(cursorState) THEN E
     ELSE IF ~IsCollapsed(cursorState)
     THEN \* console.error("unhandled")
          E
     ELSE IF cursorState.id \notin IdMap(E) THEN E
     ELSE IF ~IdMapGet(E, cursorState.id).hasText THEN E
     ELSE LET node == IdMapGet(E, cursorState.id)
              cursorOffset == cursorState.offset
              slices == SliceFrom(node.text, cursorOffset)
              newTextModel ==
                TextBlockOf(E.mkId,
                            IF node.textType \in preservedTextType
                            THEN node.textType ELSE NormalType,
                            slices)
              deleted == [E EXCEPT !.doc = WithText(@, node.id, Slice(node.text, 0, cursorOffset)),
                                   !.mutated = @ + 1,
                                   !.mkId = @ + 1]
              done == ApplyActions(deleted, <<NewBlockAction(node.id, newTextModel)>>, FALSE)
          IN AssignCursor(Render(done), Collapse(newTextModel.id, 0))

\* Editor.focusEndOfNode(treeNode)
FocusEndOfNode(E, id) ==
  IF IdMapGet(E, id).hasText
  THEN AssignCursor(E, Collapse(id, Len(IdMapGet(E, id).text)))
  ELSE AssignCursor(E, Collapse(id, 0))

\* Editor.deleteBlockOnFocusedCursor: E.prevented tells its return value
DeleteBlockOnFocusedCursor(E) ==
  LET cursorState == E.cursorState
  IN IF IsNull(cursorState) THEN E
     ELSE IF IsOpen(cursorState) THEN E
     ELSE IF cursorState.id \notin IdMap(E) THEN E
     ELSE IF Editable(IdMapGet(E, cursorState.id).name) THEN E
     ELSE LET prevNode == PrevOf(E, cursorState.id)
              done == Render(ApplyActions(E, <<DeleteAction(cursorState.id)>>, FALSE))
              focused == IF prevNode # NoId
                         THEN FocusEndOfNode(AssignCursor(done, Collapse(prevNode, 0)), prevNode)
                         ELSE AssignCursor(done, NoCursor)
          IN [focused EXCEPT !.prevented = TRUE]

\* Editor.handleBackspace and Editor.handleDelete
HandleBackspace(E) == DeleteBlockOnFocusedCursor(E)
HandleDelete(E) == DeleteBlockOnFocusedCursor(E)

\* the arrow keys
arrowKeys == {"ArrowUp", "ArrowDown", "ArrowLeft", "ArrowRight"}

\* Editor.handleKeyDown(e), for an event no keyDown listener has prevented
HandleKeyDown(E, key) ==
  IF key = "Tab" THEN [E EXCEPT !.prevented = TRUE]
  ELSE IF key \in arrowKeys THEN E
  ELSE IF E.composing THEN E
  ELSE IF key = "Enter" THEN [CommitNewLine(E) EXCEPT !.prevented = TRUE]
  ELSE IF key = "Backspace" THEN HandleBackspace(E)
  ELSE IF key = "Delete" THEN HandleDelete(E)
  ELSE E

\* the longest common prefix of a text model and a string, and the longest
\* common suffix that does not overlap it
CommonPrefix(text, str) ==
  CHOOSE p \in 0..Len(text) :
    /\ p <= Len(str)
    /\ \A i \in 1..p : text[i].c = str[i]
    /\ (p < Len(text) /\ p < Len(str)) => text[p + 1].c # str[p + 1]
CommonSuffix(text, str, p) ==
  CHOOSE q \in 0..(Len(text) - p) :
    /\ q <= Len(str) - p
    /\ \A i \in 0..(q - 1) : text[Len(text) - i].c = str[Len(str) - i]
    /\ (q < Len(text) - p /\ q < Len(str) - p) => text[Len(text) - q].c # str[Len(str) - q]

\* the text model brought to the DOM's textContent: what both share keeps
\* its attributes, what the DOM has in between comes in without attributes
DiffText(text, str) ==
  LET p == CommonPrefix(text, str)
      q == CommonSuffix(text, str, p)
  IN SubSeq(text, 1, p) \o Plain(SubSeq(str, p + 1, Len(str) - q))
       \o SubSeq(text, Len(text) - q + 1, Len(text))

\* Block.blockContentChanged of a block with a text model
BlockContentChanged(E, id) ==
  IF IdMapGet(E, id).hasText
  THEN [E EXCEPT !.doc = WithText(@, id, DiffText(IdMapGet(E, id).text, E.dom[id]))]
  ELSE E

\* Editor.destructBlockNode: the block leaves state.blocks' view of the DOM,
\* its entry leaves state.domMap
DestructBlockNode(E, id) ==
  [E EXCEPT !.dom = [x \in (DOMAIN E.dom) \ {id} |-> E.dom[x]],
            !.detached = @ \ {id}]

\* Editor.checkMarkedDom(node, actions, currentOffset) on the element of id,
\* R holding the Editor and the actions collected so far: an element that
\* has left the DOM is destructed and a delete action is pushed, the content
\* of any other block is checked
CheckMarkedDom(R, id) ==
  IF id \in R.E.detached
  THEN [E |-> DestructBlockNode(R.E, id),
        actions |-> Append(R.actions, DeleteAction(id))]
  ELSE [E |-> BlockContentChanged(R.E, id), actions |-> R.actions]

RECURSIVE CheckNodesChanged(_, _)
\* Editor.checkNodesChanged: checkMarkedDom for every DOM of the domMap
CheckNodesChanged(R, ids) ==
  IF ids = {} THEN R
  ELSE LET id == CHOOSE x \in ids : TRUE
       IN CheckNodesChanged(CheckMarkedDom(R, id), ids \ {id})

\* Editor.handleContentChanged
HandleContentChanged(E) ==
  LET F == [E EXCEPT !.contentChanged = @ + 1]
      none == [E |-> F, actions |-> <<>>]
  IN IF IsNull(F.cursorState) \/ IsOpen(F.cursorState)
     THEN \* handleOpenCursorContentChanged
          LET R == CheckNodesChanged(none, DOMAIN F.dom \cap IdMap(F))
          IN ApplyActions(R.E, R.actions, FALSE)
     ELSE IF F.cursorState.id \notin (DOMAIN F.dom \cap IdMap(F)) THEN F
     ELSE LET R == CheckMarkedDom(none, F.cursorState.id)
          IN ApplyActions(R.E, R.actions, TRUE)

\* the "input" listener of Editor.render
HandleInput(E) == IF E.composing THEN E ELSE HandleContentChanged(E)

\* Editor.handleCompositionStart and Editor.handleCompositionEnd
HandleCompositionStart(E) == [E EXCEPT !.composing = TRUE]
HandleCompositionEnd(E) == HandleContentChanged([E EXCEPT !.composing = FALSE])

\* an element of a pasted HTML body: a <span> with its text and the
\* attributes its classes stand for, or a <div> with its data-type and what
\* the onPaste of its block definition does: "none" (there is no onPaste),
\* "void" (it returns no cursor) or "throws"
SpanElement(text, attrs) ==
  [kind |-> "span", text |-> text, attrs |-> attrs, dataType |-> "", handler |-> "none"]
DivElement(dataType, handler) ==
  [kind |-> "div", text |-> <<>>, attrs |-> {}, dataType |-> dataType, handler |-> handler]

\* what a step of the paste gives: the editor, the cursor to go on from
\* (NoCursor for undefined) and whether it threw
Pasted(E, afterCursor, throws) == [E |-> E, afterCursor |-> afterCursor, throws |-> throws]

\* Editor.insertTextAt(cursorState, text, attributes)
InsertTextAt(E, cursorState, text, attributes) ==
  IF IsNull(cursorState) THEN Pasted(E, NoCursor, FALSE)
  ELSE IF IsOpen(cursorState) THEN Pasted(E, NoCursor, FALSE)
  ELSE IF cursorState.id \notin IdMap(E) THEN Pasted(E, NoCursor, FALSE)
  ELSE IF ~IdMapGet(E, cursorState.id).hasText THEN Pasted(E, NoCursor, FALSE)
  ELSE LET textModel == IdMapGet(E, cursorState.id).text
           afterOffset == cursorState.offset + Len(text)
           inserted == Slice(textModel, 0, cursorState.offset)
                         \o [i \in 1..Len(text) |-> Ch(text[i], attributes)]
                         \o SliceFrom(textModel, cursorState.offset)
       IN Pasted([E EXCEPT !.doc = WithText(@, cursorState.id, inserted),
                           !.mutated = @ + 1],
                 Collapse(cursorState.id, afterOffset), FALSE)

\* Editor.insertBlockByDefaultAt(cursorState, blockName)
InsertBlockByDefaultAt(E, cursorState, blockName) ==
  IF IsNull(cursorState) THEN Pasted(E, NoCursor, FALSE)
  ELSE IF IsOpen(cursorState) THEN Pasted(E, NoCursor, FALSE)
  ELSE IF cursorState.id \notin IdMap(E)
  THEN \* currentNode.parent of undefined
       Pasted(E, NoCursor, TRUE)
  ELSE IF blockName \notin EditorRegistered /\ E.rejects
  THEN \* State.applyActions throws on the unknown block name
       Pasted([E EXCEPT !.mkId = @ + 1], NoCursor, TRUE)
  ELSE LET newId == E.mkId
           data == Block(newId, blockName, blockName = "text", NormalType, <<>>)
           done == ApplyActions([E EXCEPT !.mkId = @ + 1],
                                <<NewBlockAction(cursorState.id, data)>>, FALSE)
       IN Pasted(done, Collapse(newId, 0), FALSE)

RECURSIVE PasteHTMLBodyLoop(_, _, _)
\* the while loop of Editor.pasteHTMLBodyOnCursor
PasteHTMLBodyLoop(E, body, afterCursor) ==
  IF body = <<>> THEN Pasted(E, afterCursor, FALSE)
  ELSE LET ptr == Head(body)
           step ==
             IF ptr.kind = "span"
             THEN InsertTextAt(E, afterCursor, ptr.text, ptr.attrs)
             ELSE IF ptr.dataType \in EditorRegistered /\ ptr.handler # "none"
             THEN \* pasteHandler.call(blockDef, ...)
                  Pasted(E, afterCursor, ptr.handler = "throws")
             ELSE InsertBlockByDefaultAt(E, afterCursor, ptr.dataType)
       IN IF step.throws THEN step
          ELSE PasteHTMLBodyLoop(step.E, Tail(body), step.afterCursor)

\* Editor.pasteHTMLOnCursor(html) with Editor.pasteHTMLBodyOnCursor(body):
\* an exception ends the paste where it is and is logged
PasteHTMLOnCursor(E, body) ==
  LET loop == PasteHTMLBodyLoop(E, body, E.cursorState)
      done == AssignCursor(Render(loop.E), loop.afterCursor)
  IN IF loop.throws THEN [loop.E EXCEPT !.caught = TRUE]
     ELSE IF done.thrown THEN [done EXCEPT !.thrown = FALSE, !.caught = TRUE]
     ELSE done

\* Editor.pastePlainTextOnCursor(text)
PastePlainTextOnCursor(E, text) == InsertTextAt(E, E.cursorState, text, {}).E

\* Editor.handlePaste(e): the clipboard's text/html, else its text/plain
HandlePaste(E, clipboardData) ==
  LET F == [E EXCEPT !.prevented = TRUE]
  IN IF clipboardData.html # <<>> THEN PasteHTMLOnCursor(F, clipboardData.html)
     ELSE IF clipboardData.plain # <<>> THEN PastePlainTextOnCursor(F, clipboardData.plain)
     ELSE F

\* ------------------------------------------------------------- the system
VARIABLES
  root,     \* the document's children, in order
  body,     \* the children of the body container, in order
  blocks,   \* the ids of the block index
  cursor,   \* state.cursorState
  version,  \* the state's version counter
  nextId,   \* the next id of the id generator
  editor,   \* TRUE once an Editor is mounted on the controller
  ops,      \* number of Controller calls made so far
  last,     \* the last Controller call: its inputs, the state before, its result
  doc,         \* Editor: the blocks of the DocumentState, in order
  dom,         \* Editor: the textContent of the DOM element of each block
  detached,    \* Editor: the ids of state.domMap whose element has left the DOM
  cursorState, \* Editor: state.cursorState
  selection,   \* Editor: the range of window.getSelection(), as a cursor
  mkId,        \* Editor: the next id of Editor.idGenerator
  composing,   \* Editor.composing
  events,      \* Editor: number of DOM events handled so far
  ev,          \* Editor: the last DOM event, the state before it, what its handler did
  listeners,   \* Editor: the listeners and observers it installed that are still installed
  disposed,    \* Editor: TRUE once dispose() was called
  nextTick,    \* Controller: the callbacks of #nextTick, in order
  emitted,     \* the calls of __emitNextTicks so far: the callbacks taken, the frame
  ran,         \* the callbacks run so far, each with the frame that ran it
  fnId,        \* the number of callbacks created so far
  ticks,       \* number of next-tick steps made so far
  base,        \* NodeLocation: the path of the first location of a call (a, base)
  location,    \* NodeLocation: the path of the second location of a call (b, location)
  result,      \* NodeLocation: the last call and what it returned
  titleContainer, \* TitleBlock: TRUE once #container is set
  titleDom,       \* TitleBlock: the textContent of the title's DOM element
  titleText,      \* TitleBlock: the text model under textContent
  titleCall,      \* TitleBlock: the last call of blockContentChanged and what it did
  menuMounted,    \* SpannerMenu: TRUE while the component is mounted and subscribed
  showDelete      \* SpannerMenu: state.showDelete

\* the variables of the Controller and those of the Editor
cvars == <<root, body, blocks, cursor, version, nextId, editor, ops, last>>
evars == <<doc, dom, detached, cursorState, selection, mkId, composing, events, ev,
           listeners, disposed>>
tvars == <<nextTick, emitted, ran, fnId, ticks>>
lvars == <<base, location, result>>
bvars == <<titleContainer, titleDom, titleText, titleCall>>
mvars == <<menuMounted, showDelete>>
vars == <<root, body, blocks, cursor, version, nextId, editor, ops, last,
          doc, dom, detached, cursorState, selection, mkId, composing, events, ev,
          listeners, disposed,
          nextTick, emitted, ran, fnId, ticks,
          base, location, result,
          titleContainer, titleDom, titleText, titleCall,
          menuMounted, showDelete>>

St == [root |-> root, body |-> body, blocks |-> blocks, cursor |-> cursor,
       version |-> version, nextId |-> nextId, applyLog |-> <<>>]

\* ----------------------------------------------------- initial documents
TitleNode == Node(TitleId, TitleName, Plain(<<"t">>))
\* three plain text blocks
DocPlain ==
  <<Node(1, TextName, Plain(<<"f", "o">>)),
    Node(2, TextName, Plain(<<"b", "a">>)),
    Node(3, TextName, Plain(<<"b", "z">>))>>
\* a non-text block, a text block of two ops (bold, bold+italic) and a block
\* element with a lower-case type name
DocMixed ==
  <<Node(1, ImageName, <<>>),
    Node(2, TextName, <<Ch("a", {"bold"}), Ch("b", {"bold", "italic"})>>),
    Node(3, LowerName, <<>>)>>
\* a text block in bold and a plain one
DocStyled ==
  <<Node(1, TextName, <<Ch("a", {"bold"})>>),
    Node(2, TextName, Plain(<<"b">>))>>
InitBodies == {DocPlain, DocMixed, DocStyled, <<>>}

\* the cursor positions of a block: the offsets of its text, or 0 and 1
\* around a block without text
Positions(S) ==
  UNION {{<<i, o>> : o \in 0..(IF IsTextLike(LiveBlocks(S)[i])
                                THEN Len(LiveBlocks(S)[i].text) ELSE 1)} :
           i \in 1..Len(LiveBlocks(S))}
Before(p, q) == p[1] < q[1] \/ (p[1] = q[1] /\ p[2] < q[2])
\* the cursors a selection can produce: null, collapsed in a text-like block
\* or at offset 0 of another block, open and oriented in document order
ValidCursors(S) ==
  {NoCursor}
  \cup {Collapse(LiveBlocks(S)[p[1]].id, p[2]) :
          p \in {q \in Positions(S) : IsTextLike(LiveBlocks(S)[q[1]]) \/ q[2] = 0}}
  \cup {Open(LiveBlocks(S)[pq[1][1]].id, pq[1][2], LiveBlocks(S)[pq[2][1]].id, pq[2][2]) :
          pq \in {r \in Positions(S) \X Positions(S) : Before(r[1], r[2])}}

NoCall ==
  [op |-> "none", pre |-> [root |-> <<>>, body |-> <<>>, blocks |-> {}, cursor |-> NoCursor,
                           version |-> 0, nextId |-> 0, applyLog |-> <<>>],
   editor |-> FALSE, ret |-> NoCursor, applies |-> 0, outcome |-> "none",
   applyLog |-> <<>>,
   id |-> NoId, elements |-> <<>>, attribs |-> [on |-> {}, off |-> {}],
   autoFocus |-> FALSE, noRender |-> FALSE, delta |-> <<>>, html |-> <<>>]

\* no DOM event yet
NoEvent ==
  [name |-> "none", key |-> "", clipboardData |-> [html |-> <<>>, plain |-> <<>>],
   pre |-> [doc |-> <<>>, dom |-> <<>>, detached |-> {}, cursorState |-> NoCursor, selection |-> NoCursor,
            mkId |-> 0, composing |-> FALSE, rejects |-> FALSE,
            prevented |-> FALSE, applied |-> 0, contentChanged |-> 0, caught |-> FALSE,
            thrown |-> FALSE, mutated |-> 0, rendered |-> 0],
   rejects |-> FALSE, cursor |-> NoCursor, range |-> NoCursor, afterDispose |-> FALSE,
   prevented |-> FALSE, applied |-> 0, contentChanged |-> 0, caught |-> FALSE,
   thrown |-> FALSE, mutated |-> 0, rendered |-> 0]

\* the Editor of an empty DocumentState, before any event
EditorAtRest ==
  /\ doc = <<>>
  /\ dom = <<>>
  /\ detached = {}
  /\ cursorState = NoCursor
  /\ selection = NoCursor
  /\ mkId = FirstFreshId
  /\ composing = FALSE
  /\ events = 0
  /\ ev = NoEvent
  /\ listeners = {}
  /\ disposed = FALSE

\* the next-tick queue of a Controller on which nothing was enqueued
TicksAtRest ==
  /\ nextTick = <<>>
  /\ emitted = <<>>
  /\ ran = <<>>
  /\ fnId = 0
  /\ ticks = 0

\* no NodeLocation made, no call of its static methods
NoLocationCall ==
  [op |-> "none", delta |-> 0, path |-> <<>>, given |-> FALSE, back |-> <<>>,
   equal |-> FALSE, hashA |-> 0, hashB |-> 0]
LocationsAtRest ==
  /\ base = <<>>
  /\ location = <<>>
  /\ result = NoLocationCall

\* no call of blockContentChanged on the title block yet
NoTitleCall ==
  [op |-> "none", offset |-> 0, mounted |-> FALSE, dom |-> <<>>, text |-> <<>>,
   edits |-> <<>>, forceUpdate |-> FALSE, textInput |-> <<>>]
\* a title block that was never mounted, with an empty text model
TitleAtRest ==
  /\ titleContainer = FALSE
  /\ titleDom = <<>>
  /\ titleText = <<>>
  /\ titleCall = NoTitleCall

\* SpannerMenu before it is mounted: the state its constructor sets
MenuAtRest ==
  /\ menuMounted = FALSE
  /\ showDelete = FALSE

Init ==
  /\ root = <<TitleNode, BodyNode>>
  /\ body \in InitBodies
  /\ blocks = {TitleId} \cup IdsOf(body)
  /\ cursor = NoCursor
  /\ version = 0
  /\ nextId = FirstFreshId
  /\ editor \in BOOLEAN
  /\ ops = 0
  /\ last = NoCall
  /\ EditorAtRest
  /\ TicksAtRest
  /\ LocationsAtRest
  /\ TitleAtRest
  /\ MenuAtRest

\* the variables of the Controller after a call with result r
CommitCall(r, call) ==
  /\ root' = r.S.root
  /\ body' = r.S.body
  /\ blocks' = r.S.blocks
  /\ cursor' = r.S.cursor
  /\ version' = r.S.version
  /\ nextId' = r.S.nextId
  /\ ops' = ops + 1
  /\ last' = [call EXCEPT !.pre = St, !.editor = editor, !.ret = r.ret,
                          !.applies = r.applies, !.outcome = r.outcome,
                          !.applyLog = r.S.applyLog]
  /\ UNCHANGED editor
  /\ UNCHANGED <<evars, tvars, lvars, bvars>>

\* the variables after a Controller call with result r
Commit(r, call) == CommitCall(r, call) /\ UNCHANGED mvars

\* ------------------------------------------------------------ the inputs
\* the deltas a caller's deltaGen(offset) builds around the cursor: typing a
\* character, deleting the character before the cursor, deleting the
\* character after the cursor
DeltaKinds == {"type", "backspace", "delete"}
DeltaGen(kind, text, offset) ==
  CASE kind = "type" -> RetainThen(offset, <<Insert(Plain(<<"x">>))>>)
    [] kind = "backspace" ->
         IF offset >= 1 THEN RetainThen(offset - 1, <<Delete(1)>>) ELSE <<>>
    [] OTHER ->
         IF offset < Len(text) THEN RetainThen(offset, <<Delete(1)>>) ELSE <<>>

\* the attribs objects a caller passes to formatTextOnSelectedText
AttribsInputs ==
  {[on |-> {"bold"}, off |-> {}],
   [on |-> {"bold", "italic"}, off |-> {}],
   [on |-> {"italic"}, off |-> {}]}

\* the element lists given to pasteElementsAtCursor, with ids freshly minted
\* from n on
PasteInputs(n) ==
  {<<Node(n, TextName, Plain(<<"p", "q">>))>>,
   <<Node(n, TextName, Plain(<<"p">>)), Node(n + 1, TextName, Plain(<<"q">>))>>,
   <<Node(n, TextName, Plain(<<"p">>)), Node(n + 1, ImageName, <<>>)>>,
   <<Node(n, ImageName, <<>>)>>,
   <<>>}

\* the calls of insertBlockAfterId: the element, with a freshly minted id,
\* and the IInsertOptions autoFocus and noRender
InsertInputs(n) ==
  {[element |-> Node(n, TextName, <<>>), autoFocus |-> FALSE, noRender |-> FALSE],
   [element |-> Node(n, TextName, <<>>), autoFocus |-> TRUE, noRender |-> FALSE],
   [element |-> Node(n, ImageName, <<>>), autoFocus |-> TRUE, noRender |-> FALSE],
   [element |-> Node(n, ImageName, <<>>), autoFocus |-> TRUE, noRender |-> TRUE]}

\* the HTML given to pasteHTMLAtCursor: a block copied from this document,
\* the same copy twice, a block of an unregistered type followed by a text
\* div, a div whose data-content is not JSON, a div without data-type
HtmlInputs(S) ==
  {<<Div(b.t, "block", b)>> : b \in {S.body[i] : i \in 1..Len(S.body)}}
  \cup {<<Div(b.t, "block", b), Div(b.t, "block", b)>> :
          b \in {S.body[i] : i \in 1..Len(S.body)}}
  \cup {<<Div(TextName, "block", Node(1, TextName, Plain(<<"f", "o">>)))>>,
        <<Div(GhostName, "block", Node(NoId, GhostName, <<>>)),
          Div(TextName, "none", NoNode)>>,
        <<Div(TextName, "malformed", NoNode)>>,
        <<Div("", "none", NoNode)>>}

\* the state with k ids taken from the id generator
Minted(S, k) == [S EXCEPT !.nextId = @ + k]

\* ------------------------------------------------------------ the actions
\* EditorController.mount(editor)
Mount ==
  /\ ~editor
  /\ editor' = TRUE
  /\ UNCHANGED <<root, body, blocks, cursor, version, nextId, ops, last>>
  /\ UNCHANGED <<evars, tvars, lvars, bvars, mvars>>

\* EditorController.setCursorState(cursorState), as the view calls it once
\* the editor is created and before the calls below: any cursor a selection
\* of the document can give
SetCursorState ==
  /\ editor
  /\ ops = 0
  /\ last.op = "none"
  /\ \E c \in ValidCursors(St) :
       /\ cursor' = c
       /\ last' = [NoCall EXCEPT !.op = "setCursorState"]
  /\ UNCHANGED <<root, body, blocks, version, nextId, editor, ops>>
  /\ UNCHANGED <<evars, tvars, lvars, bvars, mvars>>

CallApplyDeltaAtCursor ==
  /\ ops < MaxOps
  /\ \E kind \in DeltaKinds :
       LET text == IF HasBlockAtCursor(St) THEN GetBlock(St, cursor.id).text ELSE <<>>
           gen == [o \in {cursor.offset} |-> DeltaGen(kind, text, o)]
       IN Commit(ApplyDeltaAtCursor(St, gen),
                 [NoCall EXCEPT !.op = "applyDeltaAtCursor",
                                !.delta = gen[cursor.offset]])

CallInsertBlockAfterId ==
  /\ ops < MaxOps
  /\ \E in \in InsertInputs(nextId), afterId \in blocks \cup {NoId} :
       Commit(InsertBlockAfterId(Minted(St, 1), editor, in.element, afterId,
                                 in.autoFocus, in.noRender),
              [NoCall EXCEPT !.op = "insertBlockAfterId", !.id = afterId,
                             !.elements = <<in.element>>,
                             !.autoFocus = in.autoFocus, !.noRender = in.noRender])

CallDeleteBlock ==
  /\ ops < MaxOps
  /\ \E id \in blocks \cup {NoId} :
       Commit(DeleteBlock(St, editor, id),
              [NoCall EXCEPT !.op = "deleteBlock", !.id = id])

CallFormatTextOnSelectedText ==
  /\ ops < MaxOps
  /\ \E attribs \in AttribsInputs :
       Commit(FormatTextOnSelectedText(St, editor, attribs),
              [NoCall EXCEPT !.op = "formatTextOnCursor", !.attribs = attribs])

CallDeleteContentInsideInSelection ==
  /\ ops < MaxOps
  /\ ~IsNull(cursor)
  /\ IsOpen(cursor)
  /\ Commit(DeleteContentInsideInSelection(St, cursor),
            [NoCall EXCEPT !.op = "deleteContentInsideInSelection"])

CallPasteElementsAtCursor ==
  /\ ops < MaxOps
  /\ \E elements \in PasteInputs(nextId) :
       Commit(PasteElementsAtCursor(Minted(St, Len(elements)), elements),
              [NoCall EXCEPT !.op = "pasteElementsAtCursor", !.elements = elements])

CallPasteHTMLAtCursor ==
  /\ ops < MaxOps
  /\ \E html \in HtmlInputs(St) :
       Commit(PasteHTMLAtCursor(St, html),
              [NoCall EXCEPT !.op = "pasteHTMLAtCursor", !.html = html,
                             !.elements = ParseFromString(St, html, <<>>).blocks])

Next ==
  \/ Mount
  \/ SetCursorState
  \/ CallApplyDeltaAtCursor
  \/ CallInsertBlockAfterId
  \/ CallDeleteBlock
  \/ CallFormatTextOnSelectedText
  \/ CallDeleteContentInsideInSelection
  \/ CallPasteElementsAtCursor
  \/ CallPasteHTMLAtCursor

Spec == Init /\ [][Next]_vars

\* ------------------------------------------------- the Editor as a system
\* the Editor before an event: its state, with nothing done by a handler
\* (mutated counts the calls of TextModel.insert and TextModel.delete the
\* Editor makes itself, outside state.applyActions)
\* yet. State.applyActions is not part of the sources at hand: whether it
\* rejects a new block whose name the registry does not hold (rejects) is
\* left open, and both answers are explored.
ES ==
  [doc |-> doc, dom |-> dom, detached |-> detached, cursorState |-> cursorState,
   selection |-> selection,
   mkId |-> mkId, composing |-> composing, rejects |-> FALSE,
   prevented |-> FALSE, applied |-> 0, contentChanged |-> 0, caught |-> FALSE,
   thrown |-> FALSE, mutated |-> 0, rendered |-> 0]

\* the documents an Editor is created on: a bulleted text block of two
\* spans, a non-editable block and a heading; two non-editable blocks and a
\* text block
EDocTexts ==
  <<TextBlockOf(1, BulletedType, <<Ch("a", {"bold"}), Ch("b", {})>>),
    PlainBlockOf(2, ImageBlockName),
    TextBlockOf(3, HeadingType, Plain(<<"c", "d">>))>>
EDocImages ==
  <<PlainBlockOf(1, ImageBlockName),
    PlainBlockOf(2, ImageBlockName),
    TextBlockOf(3, NormalType, Plain(<<"e">>))>>
EditorDocs == {EDocTexts, EDocImages}

\* the Controller at rest while the Editor is looked at
ControllerAtRest ==
  /\ root = <<TitleNode, BodyNode>>
  /\ body = <<>>
  /\ blocks = {TitleId}
  /\ cursor = NoCursor
  /\ version = 0
  /\ nextId = FirstFreshId
  /\ editor = TRUE
  /\ ops = 0
  /\ last = NoCall

\* what the constructor and the first render install: the listener on the
\* document, the observer of state.cursorState and the listener on the
\* container, which the constructor keeps in this.disposables but for the
\* first, and the listeners render puts on the editable root
OnDocument == {"selectionchange"}
InDisposables == {"cursorState", "mouseleave"}
OnEditableRoot == {"input", "compositionstart", "compositionend", "keydown", "paste"}
Installed == OnDocument \cup InDisposables \cup OnEditableRoot

\* Editor.fromController and the first render
EditorInit ==
  /\ ControllerAtRest
  /\ TicksAtRest
  /\ LocationsAtRest
  /\ TitleAtRest
  /\ MenuAtRest
  /\ doc \in EditorDocs
  /\ dom = [id \in {doc[i].id : i \in 1..Len(doc)} |->
              Str(doc[CHOOSE i \in 1..Len(doc) : doc[i].id = id].text)]
  /\ detached = {}
  /\ cursorState = NoCursor
  /\ selection = NoCursor
  /\ mkId = FirstFreshId
  /\ composing = FALSE
  /\ events = 0
  /\ ev = NoEvent
  /\ listeners = Installed
  /\ disposed = FALSE

\* the variables after the handler of an event left the Editor as F
EventDone(F, event) ==
  /\ doc' = F.doc
  /\ dom' = F.dom
  /\ detached' = F.detached
  /\ cursorState' = F.cursorState
  /\ selection' = F.selection
  /\ mkId' = F.mkId
  /\ composing' = F.composing
  /\ events' = events + 1
  /\ ev' = [event EXCEPT !.pre = ES, !.prevented = F.prevented, !.applied = F.applied,
                         !.contentChanged = F.contentChanged, !.caught = F.caught,
                         !.thrown = F.thrown, !.mutated = F.mutated,
                         !.rendered = F.rendered,
                         !.afterDispose = disposed]
  /\ UNCHANGED <<listeners, disposed>>
  /\ UNCHANGED <<cvars, tvars, lvars, bvars, mvars>>

\* the ranges the user can select: a caret in a text block or on a block
\* without text, a range from one position to a later one
EPositions(E) ==
  UNION {{<<i, o>> : o \in 0..Len(E.doc[i].text)} : i \in 1..Len(E.doc)}
ESelections(E) ==
  {Collapse(E.doc[p[1]].id, p[2]) : p \in EPositions(E)}
  \cup {Open(E.doc[pq[1][1]].id, pq[1][2], E.doc[pq[2][1]].id, pq[2][2]) :
          pq \in {r \in EPositions(E) \X EPositions(E) : Before(r[1], r[2])}}

\* the clipboards of a paste: plain text only; spans; a div of an
\* unregistered block; a div whose paste handler throws, with plain text; a
\* div of a registered block without paste handler
Clipboards ==
  {[html |-> <<>>, plain |-> <<"p">>],
   [html |-> <<SpanElement(<<"s">>, {"bold"})>>, plain |-> <<"s">>],
   [html |-> <<DivElement(GhostName, "none"), SpanElement(<<"s">>, {})>>, plain |-> <<"s">>],
   [html |-> <<DivElement(ImageBlockName, "throws")>>, plain |-> <<"p">>],
   [html |-> <<DivElement(TextBlockName, "none")>>, plain |-> <<>>]}

\* the keys of the keydown events
KeyInputs == {"Enter", "Backspace", "Delete", "Tab", "ArrowLeft"}

\* the ranges a user or the browser leaves outside the blocks: a caret
\* whose parent is the element of a tree node that is no block, or carries
\* the block class only, or is nothing of the kind, and ranges one end of
\* which lies outside every block
StrayRanges(E) ==
  {Collapse(UnmappedId, 0), Collapse(ClassOnlyId, 0), Collapse(OutsideId, 0)}
  \cup {Open(OutsideId, 0, E.doc[i].id, 0) : i \in 1..Len(E.doc)}
  \cup {Open(E.doc[i].id, 0, x, 0) : i \in 1..Len(E.doc), x \in {OutsideId, UnmappedId}}

\* a selectionchange event: the user puts the caret or selects a range, or
\* the selection is lost (no range), and Editor.selectionChanged takes it
\* over; before the first other event, or right after the application has
\* assigned a cursor
SelectionChange ==
  /\ "selectionchange" \in listeners
  /\ \/ events = 0 /\ ev.name = "none"
     \/ events = 1 /\ ev.name = "cursor" /\ ~ev.thrown
  /\ \E sel \in ESelections(ES) \cup StrayRanges(ES) \cup {NoCursor} :
       LET F == SelectionChanged([ES EXCEPT !.selection = sel])
       IN /\ selection' = F.selection
          /\ cursorState' = F.cursorState
          /\ ev' = [NoEvent EXCEPT !.name = "selectionchange", !.pre = ES,
                                   !.range = sel, !.thrown = F.thrown]
  /\ UNCHANGED <<doc, dom, detached, mkId, composing, events, listeners, disposed>>
  /\ UNCHANGED <<cvars, tvars, lvars, bvars, mvars>>

\* a keydown event
KeyDown ==
  /\ "keydown" \in listeners
  /\ events < MaxEvents
  /\ \E key \in KeyInputs :
       EventDone(HandleKeyDown(ES, key), [NoEvent EXCEPT !.name = "keydown", !.key = key])

\* the ids of the blocks after the block of id up to the block of endId
BlocksBehind(E, id, endId) ==
  {E.doc[i].id : i \in (IndexOfId(E.doc, id) + 1)..IndexOfId(E.doc, endId)}

\* the browser types a character at the caret of a text block, or over the
\* selected range that starts in one: what the range covers goes, the
\* elements of the blocks behind the first one leave the DOM, the caret
\* moves behind the character, and an input event is sent
Input ==
  /\ "input" \in listeners
  /\ events < MaxEvents
  /\ ~IsNull(selection)
  /\ {selection.id, selection.endId} \subseteq (IdMap(ES) \cap DOMAIN dom) \ detached
  /\ IdMapGet(ES, selection.id).hasText
  /\ selection.offset <= Len(dom[selection.id])
  /\ selection.endOffset <= Len(dom[selection.endId])
  /\ IndexOfId(doc, selection.id) <= IndexOfId(doc, selection.endId)
  /\ LET typed == [ES EXCEPT
                     !.dom[selection.id] =
                        SubSeq(@, 1, selection.offset) \o <<"x">>
                          \o SubSeq(dom[selection.endId], selection.endOffset + 1,
                                    Len(dom[selection.endId])),
                     !.detached = @ \cup (BlocksBehind(ES, selection.id, selection.endId)
                                            \cap DOMAIN dom),
                     !.selection = Collapse(selection.id, selection.offset + 1)]
     IN EventDone(HandleInput(typed), [NoEvent EXCEPT !.name = "input"])

\* compositionstart and the matching compositionend
CompositionStart ==
  /\ "compositionstart" \in listeners
  /\ events < MaxEvents
  /\ ~composing
  /\ EventDone(HandleCompositionStart(ES), [NoEvent EXCEPT !.name = "compositionstart"])
CompositionEnd ==
  /\ "compositionend" \in listeners
  /\ events < MaxEvents
  /\ composing
  /\ EventDone(HandleCompositionEnd(ES), [NoEvent EXCEPT !.name = "compositionend"])

\* a paste event
Paste ==
  /\ "paste" \in listeners
  /\ events < MaxEvents
  /\ \E clipboardData \in Clipboards, rejects \in BOOLEAN :
       EventDone(HandlePaste([ES EXCEPT !.rejects = rejects], clipboardData),
                 [NoEvent EXCEPT !.name = "paste", !.clipboardData = clipboardData,
                                 !.rejects = rejects])

\* the cursors the application can assign: none, a caret in a block of the
\* document, a caret on a block without DOM element
CursorInputs(E) ==
  {NoCursor, Collapse(UnmappedId, 0)}
  \cup {Collapse(E.doc[p[1]].id, p[2]) : p \in EPositions(E)}

\* the application assigns state.cursorState; the Editor observes the field
\* and runs handleCursorStateChanged
CursorStateSet ==
  /\ "cursorState" \in listeners
  /\ events < MaxEvents
  /\ \E c \in CursorInputs(ES) :
       EventDone(AssignCursor(ES, c), [NoEvent EXCEPT !.name = "cursor", !.cursor = c])

\* Editor.dispose(): the selectionchange listener is removed from the
\* document and the disposables of this.disposables are disposed of
Dispose ==
  /\ events < MaxEvents
  /\ ~disposed
  /\ disposed' = TRUE
  /\ listeners' = (listeners \ OnDocument) \ InDisposables
  /\ events' = events + 1
  /\ ev' = [NoEvent EXCEPT !.name = "dispose", !.pre = ES]
  /\ UNCHANGED <<doc, dom, detached, cursorState, selection, mkId, composing>>
  /\ UNCHANGED <<cvars, tvars, lvars, bvars, mvars>>

EditorNext ==
  \/ SelectionChange
  \/ CursorStateSet
  \/ Dispose
  \/ KeyDown
  \/ Input
  \/ CompositionStart
  \/ CompositionEnd
  \/ Paste

EditorSpec == EditorInit /\ [][EditorNext]_vars

\* ------------------------------------------------- the next-tick queue
\* the most next-tick steps looked at
MaxTicks == 5

\* what a next-tick callback does when it runs: nothing more, throw, enqueue
\* another callback, or enqueue another callback and emit the next ticks
CallbackKinds == {"plain", "throws", "enqueues", "emits"}
Callback(id, kind) == [id |-> id, kind |-> kind]

\* the queue with its history
TS == [nextTick |-> nextTick, emitted |-> emitted, ran |-> ran, fnId |-> fnId]

\* a new callback of a kind is made and enqueued
EnqueueNew(T, kind) ==
  [T EXCEPT !.nextTick = Append(@, Callback(T.fnId + 1, kind)), !.fnId = @ + 1]

\* __emitNextTicks that leaves the callbacks in the queue
EmitNextTicks_KeepsQueue(T) ==
  LET fns == T.nextTick
  IN [T EXCEPT !.emitted = Append(@, [fns |-> fns,
                                      frame |-> IF Len(fns) > 0 THEN "pending" ELSE "none"])]

\* EditorController.__emitNextTicks(): the callbacks of the queue are taken
\* for one animation frame, requested only when there are some, and the
\* queue is a new empty array
EmitNextTicks(T) ==
  LET fns == T.nextTick
  IN [T EXCEPT !.emitted = Append(@, [fns |-> fns,
                                      frame |-> IF Len(fns) > 0 THEN "pending" ELSE "none"]),
               !.nextTick = <<>>]

RECURSIVE RunCallbacks(_, _, _)
\* the for loop of the animation frame k: every callback is called inside
\* try/catch, one after the other
RunCallbacks(T, fns, k) ==
  IF fns = <<>> THEN T
  ELSE LET fn == Head(fns)
           called == [T EXCEPT !.ran = Append(@, [fn |-> fn.id, frame |-> k])]
           after == IF fn.kind = "enqueues" THEN EnqueueNew(called, "plain")
                    ELSE IF fn.kind = "emits"
                    THEN EmitNextTicks(EnqueueNew(called, "plain"))
                    ELSE called
       IN RunCallbacks(after, Tail(fns), k)

\* the animation frame requested by the k-th call of __emitNextTicks
AnimationFrame(T, k) ==
  [RunCallbacks(T, T.emitted[k].fns, k) EXCEPT !.emitted[k].frame = "run"]

\* the variables after a next-tick step left the queue as T
TickDone(T) ==
  /\ nextTick' = T.nextTick
  /\ emitted' = T.emitted
  /\ ran' = T.ran
  /\ fnId' = T.fnId
  /\ ticks' = ticks + 1
  /\ UNCHANGED <<cvars, evars, lvars, bvars, mvars>>

\* EditorController.enqueueNextTick(fn)
CallEnqueueNextTick ==
  /\ ticks < MaxTicks
  /\ \E kind \in CallbackKinds : TickDone(EnqueueNew(TS, kind))

\* EditorController.__emitNextTicks()
CallEmitNextTicks ==
  /\ ticks < MaxTicks
  /\ TickDone(EmitNextTicks(TS))

\* the browser runs the animation frame requested first
RunAnimationFrame ==
  /\ ticks < MaxTicks
  /\ \E k \in 1..Len(emitted) :
       /\ emitted[k].frame = "pending"
       /\ \A j \in 1..(k - 1) : emitted[j].frame # "pending"
       /\ TickDone(AnimationFrame(TS, k))

TickInit ==
  /\ ControllerAtRest
  /\ EditorAtRest
  /\ TicksAtRest
  /\ LocationsAtRest
  /\ TitleAtRest
  /\ MenuAtRest

TickNext ==
  \/ CallEnqueueNextTick
  \/ CallEmitNextTicks
  \/ RunAnimationFrame

TickSpec == TickInit /\ [][TickNext]_vars

\* ---------------------------------------------------------- NodeLocation
\* the longest base path looked at; locations are up to one component longer
MaxDepth == 2

\* a component of a path: a child index or an attribute name, a string given
\* by its char codes
NumberAt(n) == [isNumber |-> TRUE, n |-> n, s |-> <<>>]
StringAt(s) == [isNumber |-> FALSE, n |-> 0, s |-> s]
Components ==
  {NumberAt(n) : n \in 0..2} \cup {StringAt(<<1>>), StringAt(<<0, 1>>)}

\* the paths of at most n components
RECURSIVE Paths(_)
Paths(n) ==
  IF n = 0 THEN {<<>>}
  ELSE Paths(n - 1) \cup {Append(p, c) : p \in {q \in Paths(n - 1) : Len(q) = n - 1},
                                         c \in Components}

\* what transform returns: a path, and whether it is the location given
Location(path, given) == [path |-> path, given |-> given]

\* NodeLocation.transform that shifts only what lies behind base's last index
Transform_ShiftsBehindOnly(basePath, locationPath, delta) ==
  IF Len(basePath) > Len(locationPath) THEN Location(locationPath, TRUE)
  ELSE IF Len(basePath) = 0 \/ Len(locationPath) = 0 THEN Location(locationPath, TRUE)
  ELSE IF \E i \in 1..(Len(basePath) - 1) : basePath[i] # locationPath[i]
  THEN Location(locationPath, TRUE)
  ELSE LET prefix == SubSeq(basePath, 1, Len(basePath) - 1)
           suffix == SubSeq(locationPath, Len(basePath) + 1, Len(locationPath))
           baseLast == basePath[Len(basePath)]
           offsetAtIndex == locationPath[Len(basePath)]
       IN IF baseLast.isNumber /\ offsetAtIndex.isNumber
          THEN Location(prefix
                          \o <<NumberAt(IF baseLast.n < offsetAtIndex.n
                                        THEN offsetAtIndex.n + delta
                                        ELSE offsetAtIndex.n)>>
                          \o suffix,
                        FALSE)
          ELSE Location(locationPath, TRUE)

\* NodeLocation.transform that always shifts by one
Transform_IgnoresDelta(basePath, locationPath, delta) ==
  IF Len(basePath) > Len(locationPath) THEN Location(locationPath, TRUE)
  ELSE IF Len(basePath) = 0 \/ Len(locationPath) = 0 THEN Location(locationPath, TRUE)
  ELSE IF \E i \in 1..(Len(basePath) - 1) : basePath[i] # locationPath[i]
  THEN Location(locationPath, TRUE)
  ELSE LET prefix == SubSeq(basePath, 1, Len(basePath) - 1)
           suffix == SubSeq(locationPath, Len(basePath) + 1, Len(locationPath))
           baseLast == basePath[Len(basePath)]
           offsetAtIndex == locationPath[Len(basePath)]
       IN IF baseLast.isNumber /\ offsetAtIndex.isNumber
          THEN Location(prefix
                          \o <<NumberAt(IF baseLast.n <= offsetAtIndex.n
                                        THEN offsetAtIndex.n + 1
                                        ELSE offsetAtIndex.n)>>
                          \o suffix,
                        FALSE)
          ELSE Location(locationPath, TRUE)

\* NodeLocation.transform that does not compare the parent paths
Transform_AnyParent(basePath, locationPath, delta) ==
  IF Len(basePath) > Len(locationPath) THEN Location(locationPath, TRUE)
  ELSE IF Len(basePath) = 0 \/ Len(locationPath) = 0 THEN Location(locationPath, TRUE)
  ELSE LET prefix == SubSeq(locationPath, 1, Len(basePath) - 1)
           suffix == SubSeq(locationPath, Len(basePath) + 1, Len(locationPath))
           baseLast == basePath[Len(basePath)]
           offsetAtIndex == locationPath[Len(basePath)]
       IN IF baseLast.isNumber /\ offsetAtIndex.isNumber
          THEN Location(prefix
                          \o <<NumberAt(IF baseLast.n <= offsetAtIndex.n
                                        THEN offsetAtIndex.n + delta
                                        ELSE offsetAtIndex.n)>>
                          \o suffix,
                        FALSE)
          ELSE Location(locationPath, TRUE)

\* NodeLocation.transform(base, location, delta)
Transform(basePath, locationPath, delta) ==
  IF Len(basePath) > Len(locationPath) THEN Location(locationPath, TRUE)
  ELSE IF Len(basePath) = 0 \/ Len(locationPath) = 0 THEN Location(locationPath, TRUE)
  ELSE IF \E i \in 1..(Len(basePath) - 1) : basePath[i] # locationPath[i]
  THEN Location(locationPath, TRUE)
  ELSE LET prefix == SubSeq(basePath, 1, Len(basePath) - 1)
           suffix == SubSeq(locationPath, Len(basePath) + 1, Len(locationPath))
           baseLast == basePath[Len(basePath)]
           offsetAtIndex == locationPath[Len(basePath)]
       IN IF baseLast.isNumber /\ offsetAtIndex.isNumber
          THEN Location(prefix
                          \o <<NumberAt(IF baseLast.n <= offsetAtIndex.n
                                        THEN offsetAtIndex.n + delta
                                        ELSE offsetAtIndex.n)>>
                          \o suffix,
                        FALSE)
          ELSE Location(locationPath, TRUE)

\* toIntArray(arr): a string gives its char codes, a number itself
RECURSIVE ToIntArray(_)
ToIntArray(arr) ==
  IF arr = <<>> THEN <<>>
  ELSE (IF Head(arr).isNumber THEN <<Head(arr).n>> ELSE Head(arr).s)
         \o ToIntArray(Tail(arr))

\* hashIntArrays of blocky-common: a hash of the numbers in order, kept in
\* 16 bits
HashModulus == 65536
HashFactor == 31
RECURSIVE HashFrom(_, _)
HashFrom(h, ints) ==
  IF ints = <<>> THEN h
  ELSE HashFrom((h * HashFactor + Head(ints)) % HashModulus, Tail(ints))
HashIntArrays(ints) == HashFrom(0, ints)

\* NodeLocation.hashCode
HashCode(path) == HashIntArrays(ToIntArray(path))

\* NodeLocation.equals without the comparison of the hash codes' components
Equals_ByHashOnly(a, b) ==
  IF Len(a) # Len(b) THEN FALSE
  ELSE IF HashCode(a) # HashCode(b) THEN FALSE
  ELSE TRUE

\* NodeLocation.equals(a, b)
Equals(a, b) ==
  IF Len(a) # Len(b) THEN FALSE
  ELSE IF HashCode(a) # HashCode(b) THEN FALSE
  ELSE IF \E i \in 1..Len(a) : a[i] # b[i] THEN FALSE
  ELSE TRUE

\* two locations are made
LocationInit ==
  /\ ControllerAtRest
  /\ EditorAtRest
  /\ TicksAtRest
  /\ base \in Paths(MaxDepth)
  /\ location \in Paths(MaxDepth + 1)
  /\ result = NoLocationCall
  /\ TitleAtRest
  /\ MenuAtRest

\* NodeLocation.transform(base, location, delta) for an insertion or a
\* removal at base
CallTransform ==
  /\ result.op = "none"
  /\ \E delta \in {1, -1} :
       LET r == Transform(base, location, delta)
       IN result' = [NoLocationCall EXCEPT !.op = "transform", !.delta = delta,
                                           !.path = r.path, !.given = r.given]
  /\ UNCHANGED <<base, location>>
  /\ UNCHANGED <<cvars, evars, tvars, bvars, mvars>>

\* the inverse call on what transform returned
CallTransformBack ==
  /\ result.op = "transform"
  /\ result' = [result EXCEPT !.op = "transformBack",
                               !.back = Transform(base, result.path, 0 - result.delta).path]
  /\ UNCHANGED <<base, location>>
  /\ UNCHANGED <<cvars, evars, tvars, bvars, mvars>>

\* NodeLocation.equals(a, b) on the two locations
CallEquals ==
  /\ result.op = "none"
  /\ result' = [NoLocationCall EXCEPT !.op = "equals", !.equal = Equals(base, location),
                                      !.hashA = HashCode(base), !.hashB = HashCode(location)]
  /\ UNCHANGED <<base, location>>
  /\ UNCHANGED <<cvars, evars, tvars, bvars, mvars>>

LocationNext ==
  \/ CallTransform
  \/ CallTransformBack
  \/ CallEquals

LocationSpec == LocationInit /\ [][LocationNext]_vars

\* ------------------------------------------------------------- TitleBlock
\* TitleBlock.blockContentChanged (block/titleBlock.ts) reconciles the text
\* model of the title with the textContent of its DOM element.  Delta.diff
\* and Changeset belong to blocky-data, which is not part of the sources at
\* hand: diff is modelled from the design document (4.1: a minimal
\* retain/insert/delete delta from this to the other, the offset hint
\* placing the edit in ambiguous cases), the apply as for the Controller.

\* longest title text the browser is let to produce
MaxTitleLen == 2
\* the characters a user types into the title
TitleChars == {"H", "i"}

RECURSIVE StringsUpTo(_)
\* the strings of at most n characters
StringsUpTo(n) ==
  IF n = 0 THEN {<<>>}
  ELSE StringsUpTo(n - 1)
         \cup {Append(s, c) : s \in {t \in StringsUpTo(n - 1) : Len(t) = n - 1},
                              c \in TitleChars}

\* the text models of a title: plain, or with its first character in bold
TitleTexts ==
  {Plain(s) : s \in StringsUpTo(MaxTitleLen)}
  \cup {[i \in 1..Len(s) |-> Ch(s[i], IF i = 1 THEN {"bold"} ELSE {})] :
          s \in StringsUpTo(MaxTitleLen) \ {<<>>}}

\* the retains that keep a run of characters and bring it to the attributes
\* of the other delta, which has none: every key the run carries is nulled
RetainPlain(run) ==
  [i \in 1..Len(run) |-> RetainAttr(1, [on |-> {}, off |-> run[i].a])]

RECURSIVE Chop(_)
\* Delta.chop(): a trailing retain without attributes is dropped
Chop(d) ==
  IF d = <<>> THEN d
  ELSE LET op == d[Len(d)]
       IN IF op.k = "retain" /\ op.on = {} /\ op.off = {}
          THEN Chop(SubSeq(d, 1, Len(d) - 1))
          ELSE d

\* the lengths p of a prefix the text model and the string share such that
\* the rest of the shorter one is a suffix they share too: the places where
\* a single edit turns the one into the other
EditPlaces(text, str) ==
  LET short == IF Len(text) < Len(str) THEN Len(text) ELSE Len(str)
  IN {p \in 0..short :
        /\ \A i \in 1..p : text[i].c = str[i]
        /\ \A i \in 0..(short - p - 1) : text[Len(text) - i].c = str[Len(str) - i]}

\* Diff, were what the DOM no longer holds never deleted
Diff_NeverDeletes(text, str, offset) ==
  LET places == EditPlaces(text, str)
      short == IF Len(text) < Len(str) THEN Len(text) ELSE Len(str)
      grown == Len(str) - short
      \* a single edit that ends at the hint is taken where there is one,
      \* the longest common prefix and suffix otherwise
      hinted == {p \in places : p + grown = offset}
      p == IF offset >= 0 /\ hinted # {}
           THEN CHOOSE x \in hinted : TRUE
           ELSE CommonPrefix(text, str)
      q == IF offset >= 0 /\ hinted # {}
           THEN short - p
           ELSE CommonSuffix(text, str, p)
      gone == Len(text) - p - q
      come == Plain(SubSeq(str, p + 1, Len(str) - q))
  IN Chop(RetainPlain(SubSeq(text, 1, p))
            \o (IF come = <<>> THEN <<>> ELSE <<Insert(come)>>)
            \o (IF gone > 0 THEN <<>> ELSE <<>>)
            \o RetainPlain(SubSeq(text, Len(text) - q + 1, Len(text))))
\* beforeDelta.diff(new Delta([{insert: str}]), offset)
Diff(text, str, offset) ==
  LET places == EditPlaces(text, str)
      short == IF Len(text) < Len(str) THEN Len(text) ELSE Len(str)
      grown == Len(str) - short
      \* a single edit that ends at the hint is taken where there is one,
      \* the longest common prefix and suffix otherwise
      hinted == {p \in places : p + grown = offset}
      p == IF offset >= 0 /\ hinted # {}
           THEN CHOOSE x \in hinted : TRUE
           ELSE CommonPrefix(text, str)
      q == IF offset >= 0 /\ hinted # {}
           THEN short - p
           ELSE CommonSuffix(text, str, p)
      gone == Len(text) - p - q
      come == Plain(SubSeq(str, p + 1, Len(str) - q))
  IN Chop(RetainPlain(SubSeq(text, 1, p))
            \o (IF come = <<>> THEN <<>> ELSE <<Insert(come)>>)
            \o (IF gone > 0 THEN <<Delete(gone)>> ELSE <<>>)
            \o RetainPlain(SubSeq(text, Len(text) - q + 1, Len(text))))

\* the title block and the Changeset handed to blockContentChanged
TB == [container |-> titleContainer, dom |-> titleDom, text |-> titleText,
       edits |-> <<>>, forceUpdate |-> FALSE, textInput |-> <<>>]

\* TitleBlock.blockContentChanged({changeset, offset, blockElement});
\* an offset of -1 stands for an event without offset
TitleBlockContentChanged(B, offset) ==
  IF ~B.container THEN B
  ELSE LET newDelta == B.dom
           beforeDelta == B.text
           diff == Diff(beforeDelta, newDelta, offset)
       IN [B EXCEPT !.edits = Append(@, diff),
                    !.forceUpdate = (Len(newDelta) = 0),
                    !.textInput = Append(@, [beforeDelta |-> beforeDelta,
                                              diff |-> diff])]

RECURSIVE ApplyTextEdits(_, _)
\* Changeset.apply() of the text edits recorded for the title
ApplyTextEdits(text, edits) ==
  IF edits = <<>> THEN text
  ELSE ApplyTextEdits(Compose(text, Head(edits)), Tail(edits))

\* TitleBlock.blockDidMount
TitleBlockDidMount ==
  /\ ~titleContainer
  /\ titleContainer' = TRUE
  /\ titleDom' = Str(titleText)
  /\ UNCHANGED <<titleText, titleCall>>
  /\ UNCHANGED <<cvars, evars, tvars, lvars, mvars>>

\* the browser changes the text of the mounted title element
TitleTyped ==
  /\ titleContainer
  /\ titleCall.op = "none"
  /\ \E s \in StringsUpTo(MaxTitleLen) :
       /\ s # titleDom
       /\ titleDom' = s
  /\ UNCHANGED <<titleContainer, titleText, titleCall>>
  /\ UNCHANGED <<cvars, evars, tvars, lvars, mvars>>

\* the input handling of the Editor on the title: blockContentChanged with
\* a new Changeset, which is then applied
CallTitleBlockContentChanged ==
  /\ titleCall.op = "none"
  /\ \E offset \in -1..MaxTitleLen :
       LET B == TitleBlockContentChanged(TB, offset)
       IN /\ titleText' = ApplyTextEdits(titleText, B.edits)
          /\ titleCall' = [op |-> "blockContentChanged", offset |-> offset,
                           mounted |-> titleContainer, dom |-> titleDom,
                           text |-> titleText, edits |-> B.edits,
                           forceUpdate |-> B.forceUpdate,
                           textInput |-> B.textInput]
  /\ UNCHANGED <<titleContainer, titleDom>>
  /\ UNCHANGED <<cvars, evars, tvars, lvars, mvars>>

TitleInit ==
  /\ ControllerAtRest
  /\ EditorAtRest
  /\ TicksAtRest
  /\ LocationsAtRest
  /\ titleContainer = FALSE
  /\ titleDom = <<>>
  /\ titleText \in TitleTexts
  /\ titleCall = NoTitleCall
  /\ MenuAtRest

TitleNext ==
  \/ TitleBlockDidMount
  \/ TitleTyped
  \/ CallTitleBlockContentChanged

TitleSpec == TitleInit /\ [][TitleNext]_vars

\* ------------------------------------------------------------ SpannerMenu
\* the number of Controller calls the menu makes
MaxMenuOps == 2

\* SpannerMenu.handleBlocksChanged: showDelete as it is once the handler
\* returns, read from the size of the block index at the time of the call
HandleBlocksChanged(S) == Cardinality(S.blocks) > 1

\* the streams the menu subscribed to, over a Controller call that took the
\* state from pre to post: newBlockCreated is emitted for a block that has
\* entered the index, blockWillDelete for a block that is about to leave it
BlocksChanged(show, pre, post) ==
  IF post.blocks \ pre.blocks # {} THEN HandleBlocksChanged(post)
  ELSE IF pre.blocks \ post.blocks # {} THEN HandleBlocksChanged(pre)
  ELSE show

\* the variables after a Controller call made from the mounted menu
MenuCommit(r, call) ==
  /\ CommitCall(r, call)
  /\ showDelete' = BlocksChanged(showDelete, St, r.S)
  /\ UNCHANGED menuMounted

\* SpannerMenu.componentDidMount: subscribes to both streams, then calls
\* handleBlocksChanged once
MenuComponentDidMount ==
  /\ ~menuMounted
  /\ menuMounted' = TRUE
  /\ showDelete' = HandleBlocksChanged(St)
  /\ UNCHANGED <<cvars, evars, tvars, lvars, bvars>>

\* SpannerMenu.componentWillUnmount: dispose$ ends both subscriptions
MenuComponentWillUnmount ==
  /\ menuMounted
  /\ menuMounted' = FALSE
  /\ UNCHANGED showDelete
  /\ UNCHANGED <<cvars, evars, tvars, lvars, bvars>>

\* SpannerMenu.insertText(textType), beside the block focusedNode
MenuInsertText ==
  /\ menuMounted
  /\ ops < MaxMenuOps
  /\ \E focusedNode \in blocks :
       LET textElement == CreateTextElement(St, <<>>)
       IN MenuCommit(InsertBlockAfterId(Minted(St, 1), editor, textElement,
                                        focusedNode, TRUE, FALSE),
                     [NoCall EXCEPT !.op = "insertText", !.id = focusedNode,
                                    !.elements = <<textElement>>,
                                    !.autoFocus = TRUE])

\* SpannerMenu.insertImage, beside the block focusedNode
MenuInsertImage ==
  /\ menuMounted
  /\ ops < MaxMenuOps
  /\ \E focusedNode \in blocks :
       LET imgElement == Node(nextId, ImageName, <<>>)
       IN MenuCommit(InsertBlockAfterId(Minted(St, 1), editor, imgElement,
                                        focusedNode, TRUE, FALSE),
                     [NoCall EXCEPT !.op = "insertImage", !.id = focusedNode,
                                    !.elements = <<imgElement>>,
                                    !.autoFocus = TRUE])

\* SpannerMenu.deleteBlock, from the Delete entry, which renderMenu offers
\* only while showDelete is set
MenuDeleteBlock ==
  /\ menuMounted
  /\ showDelete
  /\ ops < MaxMenuOps
  /\ \E focusedNode \in blocks :
       MenuCommit(DeleteBlock(St, editor, focusedNode),
                  [NoCall EXCEPT !.op = "menuDeleteBlock", !.id = focusedNode])

\* a mounted Editor on each initial document, the menu not yet mounted
MenuInit ==
  /\ root = <<TitleNode, BodyNode>>
  /\ body \in InitBodies
  /\ blocks = {TitleId} \cup IdsOf(body)
  /\ cursor = NoCursor
  /\ version = 0
  /\ nextId = FirstFreshId
  /\ editor = TRUE
  /\ ops = 0
  /\ last = NoCall
  /\ EditorAtRest
  /\ TicksAtRest
  /\ LocationsAtRest
  /\ TitleAtRest
  /\ MenuAtRest

MenuNext ==
  \/ MenuComponentDidMount
  \/ MenuComponentWillUnmount
  \/ MenuInsertText
  \/ MenuInsertImage
  \/ MenuDeleteBlock

MenuSpec == MenuInit /\ [][MenuNext]_vars

\* ------------------------------------------------------------- well-formed
TypeOK ==
  /\ version \in Nat
  /\ ops \in 0..MaxOps
  /\ editor \in BOOLEAN

\* ------------------------------------------------------------- the claims
Pre == last.pre
Called(op) == last.op = op
\* the text of a live block, and of a block before the last call
TextOf(id) == GetBlock(St, id).text
PreText(id) == GetBlock(Pre, id).text
PreCollapsedOnBlock ==
  ~IsNull(Pre.cursor) /\ IsCollapsed(Pre.cursor) /\ HasBlock(Pre, Pre.cursor.id)

\* C1: after any sequence of Controller operations the document root has
\* exactly two children, the title block first and the body container second.
C1_RootIsTitleThenBody ==
  /\ Len(root) = 2
  /\ root[1].id = TitleId
  /\ root[1].t = TitleName
  /\ root[2].t = BodyName

OffsetInRange(id, offset) ==
  (id \in LiveIds(St) /\ IsTextLike(GetBlock(St, id)))
    => (0 <= offset /\ offset <= Len(TextOf(id)))
\* the Controller calls that set the cursor
SetsCursor ==
  /\ last.outcome = "ok"
  /\ \/ Called("applyDeltaAtCursor")
     \/ Called("pasteElementsAtCursor")
     \/ Called("deleteContentInsideInSelection")
     \/ (Called("insertBlockAfterId") /\ last.autoFocus /\ ~last.noRender)

\* C3: after every Controller operation that sets the cursor, the cursor's
\* offsets lie within 0..length of the text-like block they refer to.
C3_CursorOffsetInRange ==
  (SetsCursor /\ ~IsNull(cursor))
    => (OffsetInRange(cursor.id, cursor.offset)
        /\ OffsetInRange(cursor.endId, cursor.endOffset))

\* the Controller calls C4 is about
VersionedCall ==
  \/ Called("insertBlockAfterId")
  \/ Called("deleteBlock")
  \/ Called("applyDeltaAtCursor")
  \/ Called("formatTextOnCursor")
\* the state is what it was before the call but for the ids minted
Untouched ==
  /\ root = Pre.root
  /\ body = Pre.body
  /\ blocks = Pre.blocks
  /\ cursor = Pre.cursor
  /\ version = Pre.version

\* C4: a successful insertBlockAfterId, deleteBlock, applyDeltaAtCursor or
\* formatTextOnCursor applies exactly one Changeset and raises the version by
\* exactly one; a call that returns on a guard applies none and leaves the
\* version (and the document) unchanged.
C4_OneChangesetPerCall ==
  VersionedCall =>
    /\ last.outcome = "ok" => (last.applies = 1 /\ version = Pre.version + 1)
    /\ last.outcome = "guard" => (last.applies = 0 /\ Untouched)

\* C4 witness: formatTextOnCursor went through over an open cursor whose
\* blocks hold no Text block, and a Changeset without operations was applied.
C4_Witness ==
  /\ Called("formatTextOnCursor")
  /\ last.outcome = "ok"
  /\ root = Pre.root
  /\ body = Pre.body
  /\ version = Pre.version + 1

\* the open cursor given to deleteContentInsideInSelection spans two
\* distinct live blocks
DeletedAcrossBlocks ==
  /\ Called("deleteContentInsideInSelection")
  /\ last.outcome = "ok"
  /\ Pre.cursor.id # Pre.cursor.endId
\* the ids of the blocks strictly between the start and the end block
PreBetweenIds ==
  LET all == LiveBlocks(Pre)
  IN {all[i].id : i \in (IndexOfId(all, Pre.cursor.id) + 1)..(IndexOfId(all, Pre.cursor.endId) - 1)}

\* C5: deleteContentInsideInSelection over distinct text-like start and end
\* blocks leaves the start block with start[0:startOffset] followed by
\* end[endOffset:], and removes the end block and every block between them.
C5_OpenRangeDelete ==
  (/\ DeletedAcrossBlocks
   /\ IsTextLike(GetBlock(Pre, Pre.cursor.id))
   /\ IsTextLike(GetBlock(Pre, Pre.cursor.endId)))
    => /\ Pre.cursor.id \in LiveIds(St)
       /\ TextOf(Pre.cursor.id) =
            Slice(PreText(Pre.cursor.id), 0, Pre.cursor.offset)
              \o SliceFrom(PreText(Pre.cursor.endId), Pre.cursor.endOffset)
       /\ Pre.cursor.endId \notin LiveIds(St)
       /\ PreBetweenIds \cap LiveIds(St) = {}
       /\ Pre.cursor.endId \notin blocks
       /\ PreBetweenIds \cap blocks = {}

\* C5 witness: blocks "fo", "ba", "bz" with the cursor open from (1, 1) to
\* (3, 1) become the single block "fz".
C5_Witness ==
  /\ DeletedAcrossBlocks
  /\ Pre.body = DocPlain
  /\ Pre.cursor = Open(1, 1, 3, 1)
  /\ Len(body) = 1
  /\ body[1].id = 1
  /\ Str(body[1].text) = <<"f", "z">>

\* the first block after the end block of the selection, before the call
\* (NoId when the end block is the last one)
PreNextAfterEnd ==
  LET all == LiveBlocks(Pre)
      e == IndexOfId(all, Pre.cursor.endId)
  IN IF e < Len(all) THEN all[e + 1].id ELSE NoId

\* C6: after deleteContentInsideInSelection on an open cursor the cursor is
\* collapsed at (startId, startOffset) if the start block survives, else at
\* offset 0 of the next surviving block, and the call returns this cursor.
C6_CursorAfterOpenRangeDelete ==
  (/\ Called("deleteContentInsideInSelection")
   /\ last.outcome = "ok")
    => IF Pre.cursor.id \in LiveIds(St)
       THEN /\ cursor = Collapse(Pre.cursor.id, Pre.cursor.offset)
            /\ last.ret = cursor
       ELSE PreNextAfterEnd # NoId =>
              /\ cursor = Collapse(PreNextAfterEnd, 0)
              /\ last.ret = cursor

\* formatTextOnCursor went through over an open range inside one Text block
FormattedInOneTextBlock ==
  /\ Called("formatTextOnCursor")
  /\ last.outcome = "ok"
  /\ Pre.cursor.id = Pre.cursor.endId
  /\ GetBlock(Pre, Pre.cursor.id).t = TextName
\* the selected run before the call, and the same range after it
PreRun == Slice(PreText(Pre.cursor.id), Pre.cursor.offset, Pre.cursor.endOffset)
PostRun == Slice(TextOf(Pre.cursor.id), Pre.cursor.offset, Pre.cursor.endOffset)
Requested == last.attribs.on
\* every character of the run has its attributes changed by f
RunBecomes(f(_)) ==
  /\ Len(PostRun) = Len(PreRun)
  /\ \A i \in 1..Len(PreRun) : PostRun[i].a = f(PreRun[i].a)
SingleOp == NumOps(PreRun) = 1

\* C7 as stated: the requested keys are flipped to null only when the
\* selected run is a single op carrying every requested key; when the single
\* op carries only some of them, no key is flipped and all requested values
\* are applied as given.
C7_FlipOnlyWhenAllKeysCarried ==
  FormattedInOneTextBlock =>
    IF SingleOp /\ Requested \subseteq PreRun[1].a
    THEN RunBecomes(LAMBDA a : a \ Requested)
    ELSE RunBecomes(LAMBDA a : a \cup Requested)

\* C7 amended: each requested key is flipped on its own: to null iff the
\* selected run is a single op carrying that key; the other requested keys,
\* and all of them when the run spans several ops, are applied as given.
C7_FlipPerKey ==
  FormattedInOneTextBlock =>
    IF SingleOp
    THEN RunBecomes(LAMBDA a : (a \cup Requested) \ (Requested \cap PreRun[1].a))
    ELSE RunBecomes(LAMBDA a : a \cup Requested)

\* C7 witness: {bold, italic} was requested over a single op carrying bold
\* only; the run ends italic and not bold.
C7_Witness ==
  /\ FormattedInOneTextBlock
  /\ SingleOp
  /\ PreRun[1].a = {"bold"}
  /\ Requested = {"bold", "italic"}
  /\ PostRun[1].a = {"italic"}

\* C8: {bold: true} over an open range inside one Text block: if every op of
\* the range already is bold, however many ops there are, the range ends with
\* bold unset, otherwise the whole range is bold; the characters and the
\* length of the text are unchanged.
C8_BoldToggle ==
  (FormattedInOneTextBlock /\ Requested = {"bold"}) =>
    /\ IF \A i \in 1..Len(PreRun) : "bold" \in PreRun[i].a
       THEN \A i \in 1..Len(PostRun) : "bold" \notin PostRun[i].a
       ELSE \A i \in 1..Len(PostRun) : "bold" \in PostRun[i].a
    /\ Str(TextOf(Pre.cursor.id)) = Str(PreText(Pre.cursor.id))

\* pasteElementsAtCursor went through with a collapsed cursor on a live block
PastedAtCollapsed ==
  /\ Called("pasteElementsAtCursor")
  /\ last.outcome = "ok"
  /\ PreCollapsedOnBlock
  /\ Len(last.elements) > 0
PasteBlock == GetBlock(Pre, Pre.cursor.id)
PasteMerges == IsTextLike(PasteBlock) /\ IsTextLike(last.elements[1])
\* the children after the call of the parent the current block lives in
PasteSiblings == IF ParentOf(Pre, Pre.cursor.id) = RootParent THEN root ELSE body

\* C9: with a collapsed cursor the first pasted element is merged into the
\* current block at the cursor offset, and not inserted, iff both are
\* text-like; every other element is inserted as a sibling right after the
\* current block, in the given order; a single pasted text element leaves the
\* cursor at offset + its length in the current block.
C9_PasteAtCollapsedCursor ==
  PastedAtCollapsed =>
    LET rest == IF PasteMerges THEN Tail(last.elements) ELSE last.elements
        at == IndexOfId(PasteSiblings, Pre.cursor.id)
        first == last.elements[1]
    IN /\ PasteMerges <=> first.id \notin LiveIds(St)
       /\ PasteMerges =>
            TextOf(Pre.cursor.id) =
              Slice(PreText(Pre.cursor.id), 0, Pre.cursor.offset) \o first.text
                \o (IF Len(last.elements) = 1
                    THEN SliceFrom(PreText(Pre.cursor.id), Pre.cursor.offset)
                    ELSE <<>>)
       /\ ~PasteMerges => GetBlock(St, Pre.cursor.id) = PasteBlock
       /\ at > 0
       /\ Len(PasteSiblings) >= at + Len(rest)
       /\ \A k \in 1..Len(rest) : PasteSiblings[at + k].id = rest[k].id
       /\ (PasteMerges /\ Len(last.elements) = 1) =>
            cursor = Collapse(Pre.cursor.id, Pre.cursor.offset + Len(first.text))

\* C9 witness: two elements were pasted into the middle of a text block; the
\* first was merged and the second follows the block as its next sibling.
C9_Witness ==
  /\ PastedAtCollapsed
  /\ PasteMerges
  /\ Len(last.elements) = 2
  /\ Pre.cursor.offset = 1
  /\ Len(PreText(Pre.cursor.id)) = 2
  /\ ParentOf(Pre, Pre.cursor.id) = BodyParent
  /\ body[IndexOfId(body, Pre.cursor.id) + 1].id = last.elements[2].id

\* C10: when the first of several pasted elements is merged into the current
\* text block, the cursor ends collapsed at the junction between the pasted
\* content and the tail text[offset:] of the current block, that is right
\* before the first character of the tail, whether the tail was appended to
\* the last inserted block or became a new trailing text block.
C10_CursorAtJunction ==
  (PastedAtCollapsed /\ PasteMerges /\ Len(last.elements) > 1) =>
    /\ IsCollapsed(cursor)
    /\ cursor.id \in LiveIds(St)
    /\ SliceFrom(TextOf(cursor.id), cursor.offset) =
         SliceFrom(PreText(Pre.cursor.id), Pre.cursor.offset)

\* C11: a first pasted element that is not text-like, pasted into a text
\* block with the cursor strictly inside its text: the current block keeps
\* text[0:offset], the pasted block is its next sibling, and the tail
\* text[offset:] follows the pasted block in a text block of its own.
C11_PasteSplitsAroundBlock ==
  (/\ PastedAtCollapsed
   /\ IsTextLike(PasteBlock)
   /\ ~IsTextLike(last.elements[1])
   /\ Pre.cursor.offset > 0
   /\ Pre.cursor.offset < Len(PreText(Pre.cursor.id))) =>
    LET at == IndexOfId(PasteSiblings, Pre.cursor.id)
    IN /\ TextOf(Pre.cursor.id) = Slice(PreText(Pre.cursor.id), 0, Pre.cursor.offset)
       /\ Len(PasteSiblings) >= at + 2
       /\ PasteSiblings[at + 1].id = last.elements[1].id
       /\ IsTextLike(PasteSiblings[at + 2])
       /\ PasteSiblings[at + 2].text = SliceFrom(PreText(Pre.cursor.id), Pre.cursor.offset)

\* pasteHTMLAtCursor was called
PastedHTML == Called("pasteHTMLAtCursor")
\* the ids inside the data-content of the pasted divs
ContentIds == {last.html[i].node.id : i \in {j \in 1..Len(last.html) : last.html[j].content = "block"}}
\* no id is carried by two live block elements
NoTwoLiveBlocksShareAnId ==
  \A i, j \in 1..Len(LiveBlocks(St)) :
    LiveBlocks(St)[i].id = LiveBlocks(St)[j].id => i = j

EPre == ev.pre
Event(name) == ev.name = name
\* a block of the Editor's document by id, now and before the last event
EBlockOf(id) == doc[IndexOfId(doc, id)]
EPreBlockOf(id) == EPre.doc[IndexOfId(EPre.doc, id)]
EIds == {doc[i].id : i \in 1..Len(doc)}
EPreIds == {EPre.doc[i].id : i \in 1..Len(EPre.doc)}

\* C13: no paste inserts a node whose block name the block registry does
\* not hold: the Controller's div handler drops an element with an
\* unregistered data-type, and so does the Editor's HTML paste loop, which
\* goes on with the rest of the paste.
C13_UnregisteredDropped ==
  /\ \A i \in 1..Len(LiveBlocks(St)) : LiveBlocks(St)[i].t \in Registered
  /\ \A i \in 1..Len(doc) : doc[i].name \in EditorRegistered
  /\ (/\ Event("paste")
      /\ ev.clipboardData.html = <<DivElement(GhostName, "none"), SpanElement(<<"s">>, {})>>
      /\ IsCollapsed(EPre.cursorState)
      /\ EPre.cursorState.id \in EPreIds
      /\ EPreBlockOf(EPre.cursorState.id).hasText) =>
       /\ ~ev.caught
       /\ EBlockOf(EPre.cursorState.id).text =
            Slice(EPreBlockOf(EPre.cursorState.id).text, 0, EPre.cursorState.offset)
              \o Plain(<<"s">>)
              \o SliceFrom(EPreBlockOf(EPre.cursorState.id).text, EPre.cursorState.offset)


\* the event found a caret inside a text block
PreCaretInText ==
  /\ ~IsNull(EPre.cursorState)
  /\ IsCollapsed(EPre.cursorState)
  /\ EPre.cursorState.id \in EPreIds
  /\ EPreBlockOf(EPre.cursorState.id).hasText
  /\ EPre.cursorState.offset \in 0..Len(EPreBlockOf(EPre.cursorState.id).text)
PasteAtCaretInText == Event("paste") /\ PreCaretInText

\* the text of the caret's block with plain text put in at the caret
PlainTextPasted(plain) ==
  Slice(EPreBlockOf(EPre.cursorState.id).text, 0, EPre.cursorState.offset)
    \o Plain(plain)
    \o SliceFrom(EPreBlockOf(EPre.cursorState.id).text, EPre.cursorState.offset)

\* C14: when the conversion of the pasted HTML throws, the exception is
\* caught and the paste falls back to the clipboard's plain text, which is
\* inserted at the cursor.
C14_HtmlPasteFallsBackToPlainText ==
  (PasteAtCaretInText /\ ev.caught /\ ev.clipboardData.plain # <<>>) =>
    /\ EPre.cursorState.id \in EIds
    /\ EBlockOf(EPre.cursorState.id).text = PlainTextPasted(ev.clipboardData.plain)


\* an event that was handled while a composition was going on
DuringComposition == EPre.composing /\ ~Event("none") /\ ~Event("selectionchange")

\* the events the composition guard is about
GuardedEvent ==
  \/ Event("input")
  \/ Event("keydown") /\ ev.key \in {"Enter", "Backspace", "Delete"}
  \/ Event("paste")

\* C15: between compositionstart and compositionend no input, Enter,
\* Backspace, Delete or paste event changes the model; compositionend
\* clears the flag and runs the input diff exactly once.
C15_CompositionGuard ==
  /\ (DuringComposition /\ GuardedEvent) => doc = EPre.doc
  /\ Event("compositionend") => (~composing /\ ev.contentChanged = 1)


\* a keydown of key outside a composition
KeyPressed(key) == Event("keydown") /\ ev.key = key /\ ~EPre.composing

\* Enter with the caret inside a text block
EnterAtCaretInText == KeyPressed("Enter") /\ PreCaretInText

\* the blocks around position i are the ones of before, the later ones
\* moved by shift
SiblingsKept(i, shift) ==
  /\ Len(doc) = Len(EPre.doc) + shift
  /\ \A j \in 1..(i - 1) : doc[j] = EPre.doc[j]
  /\ \A j \in (i + 1)..Len(EPre.doc) : doc[j + shift] = EPre.doc[j]

\* C16: Enter with a collapsed cursor (id, offset) in a text block of text T
\* leaves T[0:offset] in the block, puts T[offset:] with its attributes in a
\* new text block right after it, which takes over the text type iff it is
\* a preserved one, and puts the cursor at offset 0 of the new block.
C16_EnterSplitsTextBlock ==
  EnterAtCaretInText =>
    LET c == EPre.cursorState
        old == EPreBlockOf(c.id)
        i == IndexOfId(EPre.doc, c.id)
    IN /\ SiblingsKept(i, 1)
       /\ doc[i] = [old EXCEPT !.text = Slice(old.text, 0, c.offset)]
       /\ doc[i + 1].id \notin EPreIds
       /\ doc[i + 1].name = TextBlockName
       /\ doc[i + 1].hasText
       /\ doc[i + 1].text = SliceFrom(old.text, c.offset)
       /\ doc[i + 1].textType =
            IF old.textType \in preservedTextType THEN old.textType ELSE NormalType
       /\ cursorState = Collapse(doc[i + 1].id, 0)
       /\ c.offset = 0 => (doc[i].text = <<>> /\ doc[i + 1].text = old.text)

\* Enter between the bold "a" and the plain "b" of a bulleted block
C16_Witness ==
  /\ EnterAtCaretInText
  /\ EPre.cursorState.offset = 1
  /\ EPreBlockOf(EPre.cursorState.id).text = <<Ch("a", {"bold"}), Ch("b", {})>>
  /\ EPreBlockOf(EPre.cursorState.id).textType = BulletedType
  /\ EBlockOf(EPre.cursorState.id).text = <<Ch("a", {"bold"})>>
  /\ Len(doc) = Len(EPre.doc) + 1


\* the event found an open cursor from a text block to the same or a later
\* text block
PreOpenInText ==
  /\ ~IsNull(EPre.cursorState)
  /\ IsOpen(EPre.cursorState)
  /\ EPre.cursorState.id \in EPreIds
  /\ EPre.cursorState.endId \in EPreIds
  /\ EPreBlockOf(EPre.cursorState.id).hasText
  /\ EPreBlockOf(EPre.cursorState.endId).hasText

\* the blocks strictly inside the open cursor are gone
PreInsideRemoved ==
  \A k \in (IndexOfId(EPre.doc, EPre.cursorState.id) + 1)
             ..(IndexOfId(EPre.doc, EPre.cursorState.endId) - 1) :
    EPre.doc[k].id \notin EIds

\* the open range is gone from the model: inside one block the text loses
\* [offset, endOffset); across blocks the start block keeps its text before
\* offset (with or without the rest of the end block behind it), the blocks
\* inside are removed and an end block that stays keeps its text from
\* endOffset on
OpenRangeDeleted ==
  LET c == EPre.cursorState
      head == Slice(EPreBlockOf(c.id).text, 0, c.offset)
      rest == SliceFrom(EPreBlockOf(c.endId).text, c.endOffset)
  IN /\ c.id \in EIds
     /\ PreInsideRemoved
     /\ IF c.id = c.endId
        THEN EBlockOf(c.id).text = head \o rest
        ELSE /\ EBlockOf(c.id).text \in {head, head \o rest}
             /\ c.endId \in EIds => EBlockOf(c.endId).text = rest

\* the open range is gone and the rest is split behind the start block
OpenRangeDeletedAndSplit ==
  LET c == EPre.cursorState
      i == IndexOfId(doc, c.id)
  IN /\ c.id \in EIds
     /\ PreInsideRemoved
     /\ EBlockOf(c.id).text = Slice(EPreBlockOf(c.id).text, 0, c.offset)
     /\ i < Len(doc)
     /\ doc[i + 1].id \notin EPreIds
     /\ c.id = c.endId =>
          doc[i + 1].text = SliceFrom(EPreBlockOf(c.id).text, c.endOffset)
     /\ cursorState = Collapse(doc[i + 1].id, 0)

\* C17: with an open cursor, Backspace and Delete remove the selected range
\* from the model, and Enter removes it and then splits at the collapsed
\* position.
C17_OpenCursorKeysDeleteRange ==
  /\ ((KeyPressed("Backspace") \/ KeyPressed("Delete")) /\ PreOpenInText)
       => OpenRangeDeleted
  /\ (KeyPressed("Enter") /\ PreOpenInText) => OpenRangeDeletedAndSplit


\* Backspace with the caret at offset 0 of a text block that follows a text
\* block
BackspaceAtStartAfterText ==
  /\ KeyPressed("Backspace")
  /\ PreCaretInText
  /\ EPre.cursorState.offset = 0
  /\ IndexOfId(EPre.doc, EPre.cursorState.id) > 1
  /\ EPre.doc[IndexOfId(EPre.doc, EPre.cursorState.id) - 1].hasText

\* C18: Backspace at offset 0 of a text block that is not the first block
\* merges it into the previous text block: the previous block holds
\* previous ++ current, the current block is removed and the cursor is
\* collapsed in the previous block at its old length.
C18_BackspaceMergesIntoPrevious ==
  BackspaceAtStartAfterText =>
    LET c == EPre.cursorState
        i == IndexOfId(EPre.doc, c.id)
        prev == EPre.doc[i - 1]
    IN /\ c.id \notin EIds
       /\ prev.id \in EIds
       /\ EBlockOf(prev.id).text = prev.text \o EPre.doc[i].text
       /\ cursorState = Collapse(prev.id, Len(prev.text))


\* the event found a collapsed cursor on a block of the document
PreCaretOnBlock ==
  /\ ~IsNull(EPre.cursorState)
  /\ IsCollapsed(EPre.cursorState)
  /\ EPre.cursorState.id \in EPreIds

\* C19: Backspace with a collapsed cursor at offset 0 of the first block of
\* the document changes nothing, whatever the kind of the block: the
\* document and the cursor are the ones of before.
C19_BackspaceAtDocumentStartIsNoOp ==
  (/\ KeyPressed("Backspace")
   /\ PreCaretOnBlock
   /\ EPre.cursorState.offset = 0
   /\ EPre.cursorState.id = EPre.doc[1].id) =>
    /\ doc = EPre.doc
    /\ cursorState = EPre.cursorState


\* the cursor at the end of block b: behind its text, or at 0 when it has
\* no text model
EndOf(b) == Collapse(b.id, IF b.hasText THEN Len(b.text) ELSE 0)

\* key with a collapsed cursor on a non-editable block
KeyOnNonEditable(key) ==
  /\ KeyPressed(key)
  /\ PreCaretOnBlock
  /\ ~Editable(EPreBlockOf(EPre.cursorState.id).name)

\* exactly the block of the cursor is removed
CursorBlockRemoved ==
  LET i == IndexOfId(EPre.doc, EPre.cursorState.id)
  IN doc = SubSeq(EPre.doc, 1, i - 1) \o SubSeq(EPre.doc, i + 1, Len(EPre.doc))

\* C20: Backspace on a non-editable block removes exactly that block and
\* leaves the cursor at the end of the previous sibling, or absent when
\* there is none; Delete removes the block too and leaves the cursor on the
\* following block instead.
C20_KeysOnNonEditableBlock ==
  LET i == IndexOfId(EPre.doc, EPre.cursorState.id)
  IN /\ KeyOnNonEditable("Backspace") =>
          /\ CursorBlockRemoved
          /\ cursorState = IF i > 1 THEN EndOf(EPre.doc[i - 1]) ELSE NoCursor
     /\ KeyOnNonEditable("Delete") =>
          /\ CursorBlockRemoved
          /\ i < Len(EPre.doc) =>
               (~IsNull(cursorState) /\ cursorState.id = EPre.doc[i + 1].id)


\* state.cursorState was assigned a collapsed cursor, different from the one
\* before, whose id has no entry in the DOM map
CursorSetToUnmappedBlock ==
  /\ Event("cursor")
  /\ ev.cursor # EPre.cursorState
  /\ ~IsNull(ev.cursor)
  /\ IsCollapsed(ev.cursor)
  /\ ev.cursor.id \notin DOMAIN EPre.dom

\* C21: when the cursor changes to a collapsed cursor whose id has no entry
\* in the DOM map, mapping it to the selection does nothing: no exception,
\* and the window's selection and the document stay as they were.
C21_UnmappedCursorIsNoOp ==
  CursorSetToUnmappedBlock =>
    /\ ~ev.thrown
    /\ selection = EPre.selection
    /\ doc = EPre.doc
    /\ dom = EPre.dom


\* an input event outside a composition found a collapsed cursor whose
\* block has no DOM element
InputOnUnmappedBlock ==
  /\ Event("input")
  /\ ~EPre.composing
  /\ ~IsNull(EPre.cursorState)
  /\ IsCollapsed(EPre.cursorState)
  /\ EPre.cursorState.id \notin DOMAIN EPre.dom

\* the DOM of every block shows the text of its model
DomShowsModel ==
  /\ DOMAIN dom = EIds
  /\ \A id \in EIds : dom[id] = Str(EBlockOf(id).text)

\* C22: on an input event with a collapsed cursor whose block id has no
\* mapped DOM element, the error is reported through onError and the editor
\* re-renders from the model, so that afterwards the DOM shows the model.
C22_IrreconcilableInputRerenders ==
  InputOnUnmappedBlock => DomShowsModel


\* the last call of a Controller method that edits changed the tree or the
\* index
DocumentChangedByCall ==
  /\ last.outcome # "none"
  /\ (root # Pre.root \/ body # Pre.body \/ blocks # Pre.blocks)

\* C23: every change an Editor or Controller operation makes to the
\* document happens inside the transactional apply step: a Controller call
\* that changed the tree applied a Changeset, and no Editor handler of a key
\* or a paste mutates a text model itself.
C23_ChangesOnlyInsideApply ==
  /\ DocumentChangedByCall => last.applies >= 1
  /\ (Event("keydown") \/ Event("paste")) => ev.mutated = 0


\* the ids of a sequence of callbacks, and the callbacks frame k has run, in
\* the order it ran them
FnIds(fns) == [i \in 1..Len(fns) |-> fns[i].id]
RECURSIVE RanBy(_, _)
RanBy(log, k) ==
  IF log = <<>> THEN <<>>
  ELSE IF Head(log).frame = k THEN <<Head(log).fn>> \o RanBy(Tail(log), k)
  ELSE RanBy(Tail(log), k)

\* C24: the callbacks enqueued before a call of __emitNextTicks run exactly
\* once, in enqueue order, inside the one animation frame of that call, also
\* behind a callback that throws; a callback enqueued later, by a running
\* callback too, is left to a later call; a call on an empty queue requests
\* no frame.
C24_NextTicksRunOncePerFrame ==
  /\ \A k \in 1..Len(emitted) :
       /\ emitted[k].frame = "run" => RanBy(ran, k) = FnIds(emitted[k].fns)
       /\ emitted[k].frame # "run" => RanBy(ran, k) = <<>>
       /\ emitted[k].frame = "none" <=> emitted[k].fns = <<>>
  /\ \A i, j \in 1..Len(ran) : ran[i].fn = ran[j].fn => i = j
  /\ \A i \in 1..Len(ran) : ran[i].frame \in 1..Len(emitted)
  /\ \A i \in 1..Len(nextTick) : \A j \in 1..Len(ran) : ran[j].fn # nextTick[i].id

\* a frame ran a callback that throws and then one that enqueues, and the
\* callback enqueued meanwhile waits in the queue
C24_Witness ==
  \E k \in 1..Len(emitted) :
    /\ emitted[k].frame = "run"
    /\ Len(emitted[k].fns) = 2
    /\ emitted[k].fns[1].kind = "throws"
    /\ emitted[k].fns[2].kind = "enqueues"
    /\ RanBy(ran, k) = FnIds(emitted[k].fns)
    /\ Len(nextTick) = 1


\* C25: after Editor.dispose none of the listeners the editor installed is
\* still installed, and no DOM event reaches a handler of the editor.
C25_DisposeRemovesListeners ==
  /\ disposed => listeners = {}
  /\ ~ev.afterDispose


\* transform was called
Transformed == result.op = "transform" \/ result.op = "transformBack"

\* location is at least as long as base, which is not empty, and has the
\* components of base before its last
SharesParentPath ==
  /\ Len(base) >= 1
  /\ Len(location) >= Len(base)
  /\ \A i \in 1..(Len(base) - 1) : base[i] = location[i]

\* base's last component and location's component at that depth are indexes
IndexesAtDepth ==
  /\ SharesParentPath
  /\ base[Len(base)].isNumber
  /\ location[Len(base)].isNumber

\* C26: for a location that shares base's parent path, with indexes at
\* base's depth, transform returns the location with the index at that depth
\* raised by delta iff base's last index <= it, and equal to the location
\* otherwise; the other components and the length are kept.
C26_TransformShiftsIndex ==
  (Transformed /\ IndexesAtDepth) =>
    LET d == Len(base)
    IN /\ Len(result.path) = Len(location)
       /\ \A i \in 1..Len(location) : i # d => result.path[i] = location[i]
       /\ result.path[d] = NumberAt(IF base[d].n <= location[d].n
                                    THEN location[d].n + result.delta
                                    ELSE location[d].n)

\* an insertion at [0, 1] moves [0, 1, 2] to [0, 2, 2]
C26_Witness ==
  /\ result.op = "transform"
  /\ result.delta = 1
  /\ base = <<NumberAt(0), NumberAt(1)>>
  /\ location = <<NumberAt(0), NumberAt(1), NumberAt(2)>>
  /\ result.path = <<NumberAt(0), NumberAt(2), NumberAt(2)>>

\* C27: for every base and every location not equal to base, transform by
\* +1 and then by -1 gives the location back.
C27_TransformRoundTrip ==
  (result.op = "transformBack" /\ result.delta = 1 /\ location # base) =>
    result.back = location

\* a location that the insertion moved has come back
C27_Witness ==
  /\ result.op = "transformBack"
  /\ result.delta = 1
  /\ location # base
  /\ result.path # location
  /\ result.back = location

\* C28: transform returns the location given, unchanged, when base is
\* empty, the location is empty or shorter than base, the parent paths
\* differ before base's last component, or base's last component or the
\* location's component at that depth is a string.
C28_TransformLeavesOthers ==
  (Transformed /\ ~IndexesAtDepth) => (result.given /\ result.path = location)

\* a base that ends in an attribute name leaves an index path alone, and so
\* does a base under another parent
C28_Witness ==
  /\ result.op = "transform"
  /\ result.given
  /\ \/ /\ SharesParentPath
        /\ ~base[Len(base)].isNumber
        /\ location[Len(base)].isNumber
     \/ /\ Len(base) = 2
        /\ Len(location) = 2
        /\ base[1] # location[1]
        /\ base[2].isNumber
        /\ location[2].isNumber

\* C29: equals(a, b) is true iff a and b have the same length and the same
\* component at every position; equal component sequences have equal hash
\* codes, and a string never equals a number, equal hash codes or not.
C29_EqualsByComponents ==
  result.op = "equals" =>
    /\ result.equal <=> (/\ Len(base) = Len(location)
                         /\ \A i \in 1..Len(base) : base[i] = location[i])
    /\ base = location => result.hashA = result.hashB
    /\ \A i \in 1..Len(base) :
         (i <= Len(location) /\ base[i].isNumber # location[i].isNumber) => ~result.equal

\* the string of char code 1 against the index 1: the same hash code, not
\* equal
C29_Witness ==
  /\ result.op = "equals"
  /\ base = <<StringAt(<<1>>)>>
  /\ location = <<NumberAt(1)>>
  /\ result.hashA = result.hashB
  /\ ~result.equal


\* before the call the cursor pointed into a Text block
PreCursorInTextBlock ==
  /\ ~IsNull(Pre.cursor)
  /\ HasBlock(Pre, Pre.cursor.id)
  /\ GetBlock(Pre, Pre.cursor.id).t = TextName

\* the live blocks but the one of id are the ones of before the call
OtherBlocksKept(id) ==
  /\ Len(LiveBlocks(St)) = Len(LiveBlocks(Pre))
  /\ \A i \in 1..Len(LiveBlocks(Pre)) :
       LiveBlocks(Pre)[i].id # id => LiveBlocks(St)[i] = LiveBlocks(Pre)[i]

\* C30: applyDeltaAtCursor with the cursor in a Text block at start offset o
\* applies d = deltaGen(o) to the block's text and sets the collapsed cursor
\* (block id, o + changeLength(d)), in one Changeset; without cursor, or
\* with the cursor on a block that is not a Text block, it returns on a
\* guard before deltaGen and leaves the document and the cursor as they were.
C30_ApplyDeltaAtCursor ==
  Called("applyDeltaAtCursor") =>
    IF PreCursorInTextBlock
    THEN /\ last.outcome = "ok"
         /\ last.applies = 1
         /\ version = Pre.version + 1
         /\ TextOf(Pre.cursor.id) = Compose(PreText(Pre.cursor.id), last.delta)
         /\ OtherBlocksKept(Pre.cursor.id)
         /\ cursor = Collapse(Pre.cursor.id, Pre.cursor.offset + ChangeLength(last.delta))
    ELSE /\ last.outcome = "guard"
         /\ last.applies = 0
         /\ Untouched

\* a character typed at offset 1 of a Text block: the cursor is at offset 2
C30_Witness ==
  /\ Called("applyDeltaAtCursor")
  /\ PreCursorInTextBlock
  /\ Pre.cursor.offset = 1
  /\ ChangeLength(last.delta) = 1
  /\ Len(TextOf(Pre.cursor.id)) = Len(PreText(Pre.cursor.id)) + 1
  /\ cursor = Collapse(Pre.cursor.id, 2)

\* --- C31
TitleCalled == titleCall.op = "blockContentChanged"
\* C31: after blockContentChanged on a mounted title the recorded text edit,
\* once applied, leaves the characters of the text model equal to the
\* textContent of the DOM container, an empty model and the DOM text "Hi"
\* giving the single insert of "Hi"; on a title that is not mounted no edit
\* is recorded and no textInput event is emitted.
C31_TitleInputReconciled ==
  TitleCalled =>
    /\ titleCall.mounted =>
         /\ Len(titleCall.edits) = 1
         /\ Str(Compose(titleCall.text, titleCall.edits[1])) = titleCall.dom
         /\ Str(titleText) = titleDom
         /\ (titleCall.text = <<>> /\ titleCall.dom = <<"H", "i">>) =>
              /\ titleCall.edits[1] = <<Insert(Plain(<<"H", "i">>))>>
              /\ titleText = Plain(<<"H", "i">>)
    /\ ~titleCall.mounted =>
         /\ titleCall.edits = <<>>
         /\ titleCall.textInput = <<>>
         /\ titleText = titleCall.text
\* a mounted title whose text was shortened in the DOM was reconciled
C31_Witness ==
  /\ TitleCalled
  /\ titleCall.mounted
  /\ Len(titleCall.dom) < Len(titleCall.text)
  /\ titleCall.dom # <<>>
  /\ Str(titleText) = titleDom

\* --- C32
\* the last event was a selectionchange, with this range in the window
SelectionEvent == Event("selectionchange")
\* an endpoint of the range lies in a block of the document
EndpointInBlock(id) == id \in EPreIds
\* C32: on selectionchange the cursor becomes the collapsed cursor (block id,
\* offset) of a collapsed range inside a block and the open cursor from the
\* start to the end endpoint of another range; a start container without
\* enclosing block gives the collapsed cursor at offset 0 of the parent when
\* the parent is the element of a tree node and no cursor otherwise; an end
\* container without enclosing block gives no cursor; without range the
\* cursor stays as it was.
C32_SelectionBecomesCursor ==
  SelectionEvent =>
    LET range == ev.range
    IN /\ IsNull(range) => cursorState = EPre.cursorState
       /\ (~IsNull(range) /\ EndpointInBlock(range.id) /\ IsCollapsed(range)) =>
            cursorState = Collapse(range.id, range.offset)
       /\ (~IsNull(range) /\ EndpointInBlock(range.id) /\ IsOpen(range)
             /\ EndpointInBlock(range.endId)) =>
            /\ IsOpen(cursorState)
            /\ cursorState = Open(range.id, range.offset, range.endId, range.endOffset)
       /\ (~IsNull(range) /\ ~EndpointInBlock(range.id)) =>
            IF range.id = UnmappedId
            THEN cursorState = Collapse(range.id, 0)
            ELSE IsNull(cursorState)
       /\ (~IsNull(range) /\ EndpointInBlock(range.id) /\ IsOpen(range)
             /\ ~EndpointInBlock(range.endId)) =>
            IsNull(cursorState)
\* a range over two blocks replaced a caret the application had set
C32_Witness ==
  /\ SelectionEvent
  /\ ~IsNull(EPre.cursorState)
  /\ EndpointInBlock(ev.range.id)
  /\ EndpointInBlock(ev.range.endId)
  /\ ev.range.id # ev.range.endId
  /\ cursorState = ev.range

\* --- C33
\* the last event was an input event that the Editor handled
InputHandled == Event("input") /\ ~EPre.composing
\* the block of id is as it was before the event
BlockKept(id) == id \in EIds /\ EBlockOf(id) = EPreBlockOf(id)
\* C33: on an input event outside composition a collapsed cursor has only
\* its own block diffed against the DOM, every other block staying as it
\* was; with an open or absent cursor every element of the DOM map is
\* checked, so that each remaining block shows the text of its element, and
\* the edits and deletions found are applied in one batch: one apply and
\* one render.
C33_InputDiffsAndBatches ==
  InputHandled =>
    /\ (~IsNull(EPre.cursorState) /\ IsCollapsed(EPre.cursorState)) =>
         \A id \in EPreIds \ {EPre.cursorState.id} : BlockKept(id)
    /\ (IsNull(EPre.cursorState) \/ IsOpen(EPre.cursorState)) =>
         /\ \A id \in EIds \cap DOMAIN dom :
              EBlockOf(id).hasText => Str(EBlockOf(id).text) = dom[id]
         /\ doc # EPre.doc => (ev.applied = 1 /\ ev.rendered = 1)

\* --- C34
\* the last call pasted elements over an open cursor
PastedOverOpenCursor ==
  /\ Called("pasteElementsAtCursor")
  /\ Len(last.elements) > 0
  /\ ~IsNull(Pre.cursor)
  /\ IsOpen(Pre.cursor)
\* the Changeset brings nodes or characters in
BringsIn(cs) ==
  \E i \in 1..Len(cs.ops) :
    \/ cs.ops[i].op \in {"insertAfter", "insertAt"}
    \/ /\ cs.ops[i].op = "textEdit"
       /\ \E j \in 1..Len(cs.ops[i].delta) : cs.ops[i].delta[j].k = "insert"
\* C34: pasteElementsAtCursor over an open cursor applies exactly two
\* Changesets one after the other: first the one deleteContentInsideInSelection
\* records for the range, then, that apply having returned, the one that
\* inserts the elements.
C34_PasteOverOpenAppliesTwice ==
  PastedOverOpenCursor =>
    /\ Len(last.applyLog) = 2
    /\ last.applyLog[1] = DeleteContentInsideInSelection(Pre, Pre.cursor).S.applyLog[1]
    /\ BringsIn(last.applyLog[2])

\* --- C35
\* the last call formatted an open selection that spans several blocks
FormattedOverBlocks ==
  /\ Called("formatTextOnCursor")
  /\ last.outcome = "ok"
  /\ IsOpen(Pre.cursor)
  /\ GetBlock(Pre, Pre.cursor.id).t = TextName
  /\ GetBlock(Pre, Pre.cursor.endId).t = TextName
  /\ Pre.cursor.id # Pre.cursor.endId
\* the spans of the selection in Text blocks
FormattedSpans ==
  LET states == SplitCursorStateByBlocks(Pre, Pre.cursor)
  IN {states[i] : i \in {j \in 1..Len(states) : GetBlock(Pre, states[j].id).t = TextName}}
\* C35: formatTextOnCursor over an open cursor spanning several Text blocks
\* decides the toggle block by block: a block whose selected run carries a
\* requested attribute nowhere gains it, whatever the other blocks of the
\* selection carried; and the caller's attribs object is not modified, every
\* recorded retain carrying the attributes as they were passed.
C35_TogglePerBlock ==
  FormattedOverBlocks =>
    /\ \A st \in FormattedSpans : \A key \in last.attribs.on :
         LET was == Slice(PreText(st.id), st.startOffset, st.endOffset)
             now == Slice(TextOf(st.id), st.startOffset, st.endOffset)
         IN (\A i \in 1..Len(was) : key \notin was[i].a)
              => (\A i \in 1..Len(now) : key \in now[i].a)
    /\ \A i \in 1..Len(last.applyLog[1].ops) :
         LET delta == last.applyLog[1].ops[i].delta
         IN /\ delta[Len(delta)].on = last.attribs.on
            /\ delta[Len(delta)].off = last.attribs.off

\* --- C36
\* the text edits of the Changesets the last call applied
TextEditsApplied ==
  UNION {{last.applyLog[i].ops[j] :
            j \in {k \in 1..Len(last.applyLog[i].ops) :
                     last.applyLog[i].ops[k].op = "textEdit"}} :
           i \in 1..Len(last.applyLog)}
\* C36: every text edit recorded by deleteContentInsideInSelection or
\* pasteElementsAtCursor targets a text-like block that is in the tree once
\* the Changeset is applied; with a start block that is not text-like no
\* text edit is recorded against it, so the rest of a text-like end block is
\* not written to a removed node.
C36_TextEditsTargetLiveText ==
  (Called("deleteContentInsideInSelection") \/ Called("pasteElementsAtCursor")) =>
    \A edit \in TextEditsApplied :
      /\ edit.id \in LiveIds(St)
      /\ IsTextLike(GetBlock(St, edit.id))
      /\ IsTextLike(GetBlock(Pre, edit.id))

\* --- C37
\* the last call deleted the content of an open selection
DeletedInSelection ==
  /\ Called("deleteContentInsideInSelection")
  /\ last.outcome = "ok"
  /\ IsOpen(Pre.cursor)
\* the positions of the start and the end block before the call
StartAt == IndexOfId(LiveBlocks(Pre), Pre.cursor.id)
EndAt == IndexOfId(LiveBlocks(Pre), Pre.cursor.endId)
\* C37: deleteContentInsideInSelection changes only the blocks from the
\* start block to the end block: the blocks before the start block and the
\* blocks after the end block keep their text, their attributes and their
\* order, and no recorded operation names a block outside the range, the
\* traversal ending at the end block.
C37_DeleteKeepsBlocksOutside ==
  DeletedInSelection =>
    LET was == LiveBlocks(Pre)
        now == LiveBlocks(St)
        behind == Len(was) - EndAt
    IN /\ Len(now) >= (StartAt - 1) + behind
       /\ \A i \in 1..(StartAt - 1) : now[i] = was[i]
       /\ \A k \in 1..behind : now[Len(now) - k + 1] = was[Len(was) - k + 1]
       /\ \A i \in 1..Len(last.applyLog) : \A j \in 1..Len(last.applyLog[i].ops) :
            last.applyLog[i].ops[j].id \in {was[n].id : n \in StartAt..EndAt}
\* a range over two blocks was deleted between a block before it and a
\* block after it
C37_Witness ==
  /\ DeletedInSelection
  /\ StartAt > 1
  /\ EndAt > StartAt
  /\ EndAt < Len(LiveBlocks(Pre))
  /\ Len(LiveBlocks(St)) < Len(LiveBlocks(Pre))

\* --- C38
\* the last Controller call removed a block
RemovedBlocks == Pre.blocks \ blocks
BlocksRemovedByCall ==
  /\ Called("deleteBlock") \/ Called("deleteContentInsideInSelection")
  /\ RemovedBlocks # {}
\* C38: after a Controller operation that removes blocks (deleteBlock,
\* deleteContentInsideInSelection, the single block without text and without
\* next sibling included) the cursor is absent or both its ends name blocks
\* of the block index.
C38_CursorOnLiveBlock ==
  BlocksRemovedByCall =>
    \/ IsNull(cursor)
    \/ {cursor.id, cursor.endId} \subseteq blocks
\* the part of C38 on Backspace and Delete with the caret on a block that is
\* not editable: the cursor is absent or names a block of the document
C38_KeysLeaveCursorOnLiveBlock ==
  (KeyOnNonEditable("Backspace") \/ KeyOnNonEditable("Delete")) =>
    \/ IsNull(cursorState)
    \/ {cursorState.id, cursorState.endId} \subseteq EIds

\* a Controller call made from the mounted menu has returned
MenuCalled == menuMounted /\ last.op \in {"insertText", "insertImage", "menuDeleteBlock"}

\* C39: while the spanner menu is mounted, once a creation or a deletion has
\* completed, the Delete entry is shown exactly when the block index holds
\* more than one block.
C39_DeleteShownIffSeveralBlocks ==
  MenuCalled => (showDelete <=> Cardinality(blocks) > 1)

\* the part of C39 that holds: at mount, and after every creation, the
\* Delete entry is shown exactly when more than one block is held
C39_CreationsKeepDeleteInStep ==
  (menuMounted /\ last.op \in {"none", "insertText", "insertImage"})
    => (showDelete <=> Cardinality(blocks) > 1)

====
